---------------------------- MODULE Spec2Model ----------------------------
(***************************************************************************)
(* A model of the knowledge-graph construction pipeline: the graph store   *)
(* (DrizzleGraphStore over the Postgres schema), the EDC workflow and the  *)
(* Integration workflow.                                                   *)
(***************************************************************************)
EXTENDS Naturals, Integers, Sequences, FiniteSets, Bags, TLC

VARIABLES
    entities,       \* table "entities": id -> [name, type, version]
    relationships,  \* table "relationships": the bag of its rows (sourceId, targetId, type)
    lastSave,       \* the last saveGraph call: its fragment, outcome and the tables before it
    nSaves,         \* saveGraph calls made so far
    edcQueue,       \* EDC workflow: events sent and not yet handled
    edcStream,      \* EDC workflow: every event sent, in order
    edcThrown,      \* EDC workflow: exceptions raised inside the handlers
    edcResponse,    \* EDC workflow: the model's response to the Definer's request
    intQueue,       \* Integration workflow: events sent and not yet handled
    intStream,      \* Integration workflow: every event sent, in order
    intThrown,      \* Integration workflow: exceptions raised inside the handlers
    intAnswers,     \* Integration workflow: the resolver's responses behind the resolved graph
    txs,            \* concurrent saveGraph calls: the transaction of each caller
    canonCall,      \* a call of Canonicalizer.process: its input and what it returned
    retryCall,      \* a call of withRetry: its configuration, attempts, errors and outcome
    toolCall,       \* a call of processPaper: the events it read and what it returned
    extractCall,    \* a call of Extractor.process: what the service returned and the result
    fetchCall,      \* a call of fetchSimilarEntities or fetchSimilarEntitiesBatch and its result
    pool,           \* a call of parallelWithLimit: the tasks in flight and the results so far
    loadCall,       \* a call of LlamaParseLoader.load: where it is and how often it polled
    client,         \* the postgres client every DrizzleGraphStore shares: "open" or "ended"
    exited          \* the process that runs the workflows has exited

storeVars == <<entities, relationships, lastSave, nSaves>>
edcVars == <<edcQueue, edcStream, edcThrown, edcResponse>>
intVars == <<intQueue, intStream, intThrown, intAnswers>>
callVars == <<canonCall, retryCall, toolCall, extractCall, fetchCall, pool, loadCall>>
procVars == <<client, exited>>
vars == <<entities, relationships, lastSave, nSaves, edcQueue, edcStream, edcThrown,
          edcResponse,
          intQueue, intStream, intThrown, intAnswers, txs, canonCall,
          retryCall, toolCall, extractCall, fetchCall, pool, loadCall,
          client, exited>>

(***************************************************************************)
(* Bounds and value domains                                                *)
(***************************************************************************)
MaxEnts == 2        \* entities per fragment
MaxRels == 1        \* relationships per fragment
MaxSaves == 2       \* saveGraph calls per behaviour

StoreIds == {"a", "b"}
StoreNames == {"X"}
EntTypes == {"Method"}
RelTypes == {"uses"}

SeqsUpTo(S, n) == UNION {[1..k -> S] : k \in 0..n}

Min(a, b) == IF a < b THEN a ELSE b

(***************************************************************************)
(* Domain types                                                            *)
(***************************************************************************)
Entity(ids, names) == [id : ids, name : names, type : EntTypes]

Relationship(ids) == [sourceId : ids, targetId : ids, type : RelTypes]

\* referencedEntityIds is optional: a fragment built without it has no such field.
GraphData(ids, names) ==
    [entities : SeqsUpTo(Entity(ids, names), MaxEnts),
     relationships : SeqsUpTo(Relationship(ids), MaxRels)]

EntityIds(graph) == {graph.entities[i].id : i \in DOMAIN graph.entities}

(***************************************************************************)
(* Schema                                                                  *)
(***************************************************************************)
\* entities.id is the primary key: the table is a function of the id.
EmptyEntities == [id \in {} |-> [name |-> "X", type |-> "Method", version |-> 1]]

\* relationships has a random uuid primary key and no unique constraint on
\* (source_id, target_id, type): equal triples are distinct rows, so the table
\* is a bag.
EmptyRelationships == EmptyBag

\* The only unique index on relationships is its random uuid primary key, so
\* an insert never conflicts with an existing row.
RelationshipConflict(rels, r) == FALSE

FKViolationMut(ents, r) == FALSE

\* source_id and target_id REFERENCES entities(id): an insert fails unless
\* both rows exist.
FKViolation(ents, r) ==
    r.sourceId \notin DOMAIN ents \/ r.targetId \notin DOMAIN ents

(***************************************************************************)
(* DrizzleGraphStore.saveGraph                                             *)
(***************************************************************************)
\* INSERT ... ON CONFLICT (id) DO UPDATE SET ..., version = version + 1
upsertEntity(ents, e) ==
    IF e.id \in DOMAIN ents
    THEN [ents EXCEPT ![e.id] =
              [name |-> e.name, type |-> e.type, version |-> @.version + 1]]
    ELSE ents @@ (e.id :> [name |-> e.name, type |-> e.type, version |-> 1])

RECURSIVE upsertEntities(_, _)
upsertEntities(ents, es) ==
    IF es = <<>> THEN ents
    ELSE upsertEntities(upsertEntity(ents, Head(es)), Tail(es))

\* INSERT ... ON CONFLICT DO NOTHING
insertRelationship(rels, r) ==
    IF RelationshipConflict(rels, r) THEN rels
    ELSE rels (+) SetToBag({[sourceId |-> r.sourceId, targetId |-> r.targetId,
                             type |-> r.type]})

RECURSIVE insertRelationships(_, _, _)
insertRelationships(ents, rels, rs) ==
    IF rs = <<>> THEN [ok |-> TRUE, relationships |-> rels]
    ELSE IF FKViolation(ents, Head(rs))
         THEN [ok |-> FALSE, relationships |-> rels]
         ELSE insertRelationships(ents, insertRelationship(rels, Head(rs)), Tail(rs))

saveGraphNoTransaction(ents, rels, graph) ==
    IF Len(graph.entities) > 0
    THEN LET upserted == upsertEntities(ents, graph.entities)
             inserted == IF Len(graph.relationships) > 0
                         THEN insertRelationships(upserted, rels, graph.relationships)
                         ELSE [ok |-> TRUE, relationships |-> rels]
         IN  [ok |-> inserted.ok, entities |-> upserted,
              relationships |-> inserted.relationships]
    ELSE [ok |-> TRUE, entities |-> ents, relationships |-> rels]

\* The whole call: nothing is written for a fragment without entities; the
\* transaction is rolled back and the error rethrown when a statement fails.
saveGraph(ents, rels, graph) ==
    IF Len(graph.entities) > 0
    THEN LET upserted == upsertEntities(ents, graph.entities)
             inserted == IF Len(graph.relationships) > 0
                         THEN insertRelationships(upserted, rels, graph.relationships)
                         ELSE [ok |-> TRUE, relationships |-> rels]
         IN  IF inserted.ok
             THEN [ok |-> TRUE, entities |-> upserted,
                   relationships |-> inserted.relationships]
             ELSE [ok |-> FALSE, entities |-> ents, relationships |-> rels]
    ELSE [ok |-> TRUE, entities |-> ents, relationships |-> rels]

(***************************************************************************)
(* Specification of the store under a sequence of saveGraph calls          *)
(***************************************************************************)
NoSave ==
    [graph |-> [entities |-> <<>>, relationships |-> <<>>],
     called |-> FALSE, ok |-> FALSE, repeated |-> FALSE,
     preEntities |-> EmptyEntities, preRelationships |-> EmptyRelationships]

StoreEmpty ==
    /\ entities = EmptyEntities
    /\ relationships = EmptyRelationships
    /\ lastSave = NoSave
    /\ nSaves = 0

\* No workflow has been given an event.
NoResponse == [kind |-> "none"]

EDCIdle ==
    edcQueue = <<>> /\ edcStream = <<>> /\ edcThrown = 0 /\ edcResponse = NoResponse

IntegrationIdle ==
    intQueue = <<>> /\ intStream = <<>> /\ intThrown = 0 /\ intAnswers = <<>>

Callers == {"p", "q"}

\* A caller that has not called saveGraph.
IdleTx ==
    [pc |-> "idle", graph |-> [entities |-> <<>>, relationships |-> <<>>],
     hasSnapshot |-> FALSE, snapshot |-> EmptyEntities, view |-> EmptyEntities,
     written |-> {}, inserted |-> EmptyRelationships, next |-> 1,
     attempts |-> 0, error |-> "none"]

NoTransactions == txs = [p \in Callers |-> IdleTx]

NotCalled == [called |-> FALSE]

CallsIdle ==
    /\ canonCall = NotCalled
    /\ retryCall = NotCalled
    /\ toolCall = NotCalled
    /\ extractCall = NotCalled
    /\ fetchCall = NotCalled
    /\ pool = NotCalled
    /\ loadCall = NotCalled

\* The process has started: importing the storage module opened the client.
ProcessStarted == client = "open" /\ exited = FALSE

StoreInit == StoreEmpty /\ EDCIdle /\ IntegrationIdle /\ NoTransactions /\ CallsIdle /\ ProcessStarted

\* A caller hands the store a fragment (the EDC save handler).
SaveGraph(graph) ==
    /\ ~lastSave.called
    /\ nSaves < MaxSaves
    /\ LET res == saveGraph(entities, relationships, graph)
       IN  /\ entities' = res.entities
           /\ relationships' = res.relationships
           /\ lastSave' = [graph |-> graph, called |-> TRUE, ok |-> res.ok,
                           repeated |-> FALSE,
                           preEntities |-> entities,
                           preRelationships |-> relationships]
    /\ nSaves' = nSaves + 1

\* The same fragment is handed to the store once more (the Integration
\* persist step after the EDC save handler, every entity resolved CREATE).
SaveGraphAgain ==
    /\ lastSave.called
    /\ nSaves < MaxSaves
    /\ LET res == saveGraph(entities, relationships, lastSave.graph)
       IN  /\ entities' = res.entities
           /\ relationships' = res.relationships
           /\ lastSave' = [lastSave EXCEPT !.ok = res.ok,
                                           !.repeated = lastSave.ok,
                                           !.preEntities = entities,
                                           !.preRelationships = relationships]
    /\ nSaves' = nSaves + 1

\* The caller is done with the fragment.
Release ==
    /\ lastSave.called
    /\ lastSave' = NoSave
    /\ UNCHANGED <<entities, relationships, nSaves>>

StoreNext ==
    \/ \E graph \in GraphData(StoreIds, StoreNames) :
           SaveGraph(graph) /\ UNCHANGED <<edcVars, intVars, txs, callVars, procVars>>
    \/ SaveGraphAgain /\ UNCHANGED <<edcVars, intVars, txs, callVars, procVars>>
    \/ Release /\ UNCHANGED <<edcVars, intVars, txs, callVars, procVars>>

SpecStore == StoreInit /\ [][StoreNext]_vars

(***************************************************************************)
(* EDC pipeline stages                                                     *)
(***************************************************************************)
EdcIds == {"a", "b"}
EdcNames == {"X", "x"}
Papers == {"paper.pdf"}
Texts == {"markdown"}
Errors == {"ETIMEDOUT", "EACCES"}

Raised == {[ok |-> FALSE, error |-> e] : e \in Errors}

\* String.prototype.toLowerCase over the names of the model
toLowerCase(name) == IF name = "X" THEN "x" ELSE name

\* LlamaParseLoader.load: the paper's text, or an error
LoadOutcomes(paperPath) == {[ok |-> TRUE, text |-> t] : t \in Texts} \cup Raised

\* Extractor.process: the entities are what the extraction service returns;
\* relationships are extracted only when there are entities, and kept only
\* when both endpoints are extracted entities and differ.
ExtractedRelationships(es) ==
    LET ids == {es[i].id : i \in DOMAIN es}
    IN  IF es = <<>> THEN {<<>>}
        ELSE SeqsUpTo({r \in Relationship(ids) : r.sourceId # r.targetId}, MaxRels)

ExtractOutcomes(text) ==
    UNION {{[ok |-> TRUE, graph |-> [entities |-> es, relationships |-> rs]] :
                rs \in ExtractedRelationships(es)} :
           es \in SeqsUpTo(Entity(EdcIds, EdcNames), MaxEnts)}
    \cup Raised

\* What the model may answer to the Definer's request for a batch: the call
\* fails, the text is not JSON, or it is a list of entities (possibly empty).
DefinerResponses ==
    {[kind |-> "llmError"], [kind |-> "parseError"]}
    \cup {[kind |-> "entities", entities |-> es] :
              es \in SeqsUpTo(Entity(EdcIds, EdcNames), MaxEnts)}

\* entityMap.get(id): the last entity of the input with that id, if any.
entityMapHas(input, key) == \E i \in DOMAIN input : input[i].id = key
entityMapGet(input, key) ==
    input[CHOOSE i \in DOMAIN input :
              /\ input[i].id = key
              /\ \A j \in DOMAIN input : input[j].id = key => j <= i]

\* Definer.process for a fragment of one batch: the refined entities are the
\* model's list, or the batch itself when the call fails, the answer is not
\* JSON or the list is empty; each refined entity is laid over the original
\* found under its id or its name, else stands alone, with its own name and type.
define(graph, response) ==
    LET refinedEntities == IF response.kind = "entities" /\ Len(response.entities) > 0
                           THEN response.entities
                           ELSE graph.entities
        finalEntities ==
            [i \in DOMAIN refinedEntities |->
                LET refined == refinedEntities[i]
                    original == IF entityMapHas(graph.entities, refined.id)
                                THEN entityMapGet(graph.entities, refined.id)
                                ELSE IF entityMapHas(graph.entities, refined.name)
                                THEN entityMapGet(graph.entities, refined.name)
                                ELSE refined
                IN  [original EXCEPT !.type = refined.type, !.name = refined.name]]
    IN  [graph EXCEPT !.entities = finalEntities]

\* Definer.process: an empty fragment is returned as is, without a request to
\* the model; otherwise the outcome follows the model's response, or the call
\* raises outside its own error handling.
DefineOutcomes(graph) ==
    IF Len(graph.entities) = 0
    THEN {[ok |-> TRUE, graph |-> graph, response |-> NoResponse]}
    ELSE {[ok |-> TRUE, graph |-> define(graph, response), response |-> response] :
              response \in DefinerResponses}
         \cup Raised

\* Canonicalizer.process, step 1: the first entity of each lower-cased name is
\* kept; a later one is remapped to it. Entities without a name are skipped.
RECURSIVE dedupByName(_, _, _)
dedupByName(es, uniqueEntities, idRemap) ==
    IF es = <<>> THEN [uniqueEntities |-> uniqueEntities, idRemap |-> idRemap]
    ELSE LET entity == Head(es)
             key == toLowerCase(entity.name)
             same == {i \in DOMAIN uniqueEntities :
                          toLowerCase(uniqueEntities[i].name) = key}
         IN  IF entity.name = ""
             THEN dedupByName(Tail(es), uniqueEntities, idRemap)
             ELSE IF same # {}
                  THEN LET existing == uniqueEntities[CHOOSE i \in same : TRUE]
                       IN  dedupByName(Tail(es), uniqueEntities,
                               [x \in DOMAIN idRemap \cup {entity.id} |->
                                   IF x = entity.id THEN existing.id ELSE idRemap[x]])
                  ELSE dedupByName(Tail(es), Append(uniqueEntities, entity), idRemap)

RemappedMut(idRemap, id) == id

Remapped(idRemap, id) == IF id \in DOMAIN idRemap THEN idRemap[id] ELSE id

canonicalizeMut(graph) ==
    LET d == dedupByName(graph.entities, <<>>, <<>>)
        rewritten == [i \in DOMAIN graph.relationships |->
                         [graph.relationships[i] EXCEPT
                              !.sourceId = Remapped(d.idRemap, @),
                              !.targetId = Remapped(d.idRemap, @)]]
    IN  [entities |-> d.uniqueEntities, relationships |-> rewritten]

\* Canonicalizer.process: deduplicate, rewrite the relationship endpoints and
\* drop the self-loops.
canonicalize(graph) ==
    LET d == dedupByName(graph.entities, <<>>, <<>>)
        rewritten == [i \in DOMAIN graph.relationships |->
                         [graph.relationships[i] EXCEPT
                              !.sourceId = Remapped(d.idRemap, @),
                              !.targetId = Remapped(d.idRemap, @)]]
    IN  [entities |-> d.uniqueEntities,
         relationships |-> SelectSeq(rewritten, LAMBDA r : r.sourceId # r.targetId)]

\* fs.writeFile of a debug file: written, or an error of the file system
WriteErrors == {"ENOSPC"}
WriteOutcomes == {[ok |-> TRUE]} \cup {[ok |-> FALSE, error |-> e] : e \in WriteErrors}

(***************************************************************************)
(* Canonicalizer.process called on any fragment                            *)
(***************************************************************************)
CanonIds == {"a", "b", "c"}
CanonNames == {"X", "x", " x", ""}

\* The fragments handed to the call: any entities, any relationships.
CanonFragments == GraphData(CanonIds, CanonNames)

CallCanonicalize(graph) ==
    /\ canonCall = NotCalled
    /\ canonCall' = [called |-> TRUE, returned |-> FALSE, input |-> graph]
    /\ UNCHANGED <<storeVars, edcVars, intVars, txs, procVars, loadCall, pool, fetchCall, extractCall, retryCall, toolCall>>

CanonicalizeReturns ==
    /\ canonCall.called
    /\ ~canonCall.returned
    /\ canonCall' = [called |-> TRUE, returned |-> TRUE, input |-> canonCall.input,
                     output |-> canonicalize(canonCall.input)]
    /\ UNCHANGED <<storeVars, edcVars, intVars, txs, procVars, loadCall, pool, fetchCall, extractCall, retryCall, toolCall>>

CanonicalizeInit == StoreEmpty /\ EDCIdle /\ IntegrationIdle /\ NoTransactions /\ CallsIdle /\ ProcessStarted

CanonicalizeNext ==
    \/ /\ canonCall = NotCalled
       /\ \E graph \in CanonFragments : CallCanonicalize(graph)
    \/ CanonicalizeReturns

SpecCanonicalize == CanonicalizeInit /\ [][CanonicalizeNext]_vars

(***************************************************************************)
(* withRetry: an operation retried with backoff                            *)
(***************************************************************************)
MaxRetries == 3

\* The errors an operation may throw: with or without a message, with or
\* without a status.
ErrorMessages == {"Payment Required", "Error 402", "Unauthorized", "401", "ECONNRESET"}
ErrorStatuses == {404, 500}
OperationErrors ==
    [message : ErrorMessages, status : ErrorStatuses] \cup [message : ErrorMessages]
        \cup [status : ErrorStatuses]

\* String.prototype.includes over the messages of the model
includes(message, pattern) ==
    \/ message = pattern
    \/ message = "Error 402" /\ pattern = "402"
    \/ message = "Failed to upload file: Payment Required" /\ pattern = "Payment Required"

\* error.message?.includes(pattern)
messageIncludes(error, pattern) ==
    "message" \in DOMAIN error /\ includes(error.message, pattern)

shouldRetryMut(error) == TRUE

shouldRetry(error) ==
    IF messageIncludes(error, "Payment Required") \/ messageIncludes(error, "402")
    THEN FALSE
    ELSE IF messageIncludes(error, "Unauthorized") \/ messageIncludes(error, "401")
    THEN FALSE
    ELSE IF "status" \in DOMAIN error /\ error.status = 404
    THEN FALSE
    ELSE TRUE

\* RETRY_DEFAULTS: factor, minTimeout and maxTimeout (ms).
RetryFactor == 2
MinTimeout == 1000
MaxTimeout == 10000

\* Math.min(minTimeout * Math.pow(factor, attempt - 1), maxTimeout)
delay(attempt) == Min(MinTimeout * RetryFactor ^ (attempt - 1), MaxTimeout)

exhaustedMut(attempt, retries) == attempt >= retries

\* attempt > config.retries: the attempt was the last one.
exhausted(attempt, retries) == attempt > retries

\* withRetry(operation, {retries}): the loop starts with attempt 1.
CallWithRetry(retries) ==
    /\ retryCall = NotCalled
    /\ retryCall' = [called |-> TRUE, retries |-> retries, attempt |-> 1, calls |-> 0,
                     errors |-> <<>>, sleeps |-> <<>>, thrown |-> <<>>, pc |-> "running"]
    /\ UNCHANGED <<storeVars, edcVars, intVars, txs, procVars, loadCall, pool, fetchCall, extractCall, canonCall, toolCall>>

\* One pass of the loop: the operation is called; its value is returned, or
\* its error is rethrown, or the loop sleeps and goes on to the next attempt.
Attempt ==
    /\ retryCall.called
    /\ retryCall.pc = "running"
    /\ \/ retryCall' = [retryCall EXCEPT !.calls = @ + 1, !.pc = "returned"]
       \/ \E error \in OperationErrors :
              LET isRetryable == shouldRetry(error)
              IN  IF ~isRetryable \/ exhausted(retryCall.attempt, retryCall.retries)
                  THEN retryCall' = [retryCall EXCEPT !.calls = @ + 1,
                                                      !.errors = Append(@, error),
                                                      !.thrown = <<error>>,
                                                      !.pc = "thrown"]
                  ELSE retryCall' = [retryCall EXCEPT !.calls = @ + 1,
                                                      !.errors = Append(@, error),
                                                      !.sleeps =
                                                          Append(@, delay(retryCall.attempt)),
                                                      !.attempt = @ + 1]
    /\ UNCHANGED <<storeVars, edcVars, intVars, txs, procVars, loadCall, pool, fetchCall, extractCall, canonCall, toolCall>>

RetryInit == StoreEmpty /\ EDCIdle /\ IntegrationIdle /\ NoTransactions /\ CallsIdle /\ ProcessStarted

RetryNext ==
    \/ \E retries \in 0..MaxRetries : CallWithRetry(retries)
    \/ Attempt

SpecRetry == RetryInit /\ [][RetryNext]_vars

(***************************************************************************)
(* Extractor.process, called on its own: entities first, then the          *)
(* relationships between them                                              *)
(***************************************************************************)
\* The ids the extraction service may name: those of the model's entities
\* and one more.
ExtractIds == EdcIds \cup {"z"}

\* What the extraction service answers to the entity request: the call
\* fails, the result has no data, or the data lists entities.
EntityResponses ==
    Raised \cup {[ok |-> TRUE, kind |-> "none"]}
    \cup {[ok |-> TRUE, kind |-> "data", entities |-> es] :
              es \in SeqsUpTo(Entity(EdcIds, EdcNames), MaxEnts)}

\* What it answers to the relationship request: the ids are whatever the
\* language model wrote.
RelationshipResponses ==
    Raised \cup {[ok |-> TRUE, kind |-> "none"]}
    \cup {[ok |-> TRUE, kind |-> "data", relationships |-> rs] :
              rs \in SeqsUpTo(Relationship(ExtractIds), MaxRels)}

extractEntities(response) ==
    IF response.kind = "data" THEN response.entities ELSE <<>>

isValidMut(entityIds, rel) ==
    rel.sourceId \in entityIds /\ rel.targetId \in entityIds

\* The filter of extractRelationships.
isValid(entityIds, rel) ==
    /\ rel.sourceId \in entityIds
    /\ rel.targetId \in entityIds
    /\ rel.sourceId # rel.targetId

extractRelationships(es, response) ==
    IF response.kind = "data"
    THEN LET entityIds == {es[i].id : i \in DOMAIN es}
         IN  SelectSeq(response.relationships, LAMBDA rel : isValid(entityIds, rel))
    ELSE <<>>

\* process is called; the entity request is answered.  Without entities
\* the call returns at once; a failed request is thrown to the caller.
CallExtract(text, response) ==
    /\ extractCall = NotCalled
    /\ extractCall' =
           IF ~response.ok
           THEN [called |-> TRUE, returned |-> FALSE, thrown |-> TRUE, text |-> text,
                 error |-> response.error]
           ELSE LET es == extractEntities(response)
                IN  IF Len(es) = 0
                    THEN [called |-> TRUE, returned |-> TRUE, thrown |-> FALSE,
                          text |-> text, asked |-> FALSE,
                          output |-> [entities |-> <<>>, relationships |-> <<>>]]
                    ELSE [called |-> TRUE, returned |-> FALSE, thrown |-> FALSE,
                          text |-> text, entities |-> es]
    /\ UNCHANGED <<storeVars, edcVars, intVars, txs, procVars, loadCall, pool, fetchCall, canonCall, retryCall, toolCall>>

\* The relationship request is answered and process returns.
ExtractReturns(response) ==
    /\ extractCall.called
    /\ ~extractCall.returned
    /\ ~extractCall.thrown
    /\ extractCall' =
           IF ~response.ok
           THEN [called |-> TRUE, returned |-> FALSE, thrown |-> TRUE,
                 text |-> extractCall.text, error |-> response.error]
           ELSE [called |-> TRUE, returned |-> TRUE, thrown |-> FALSE,
                 text |-> extractCall.text, asked |-> TRUE, answer |-> response,
                 output |-> [entities |-> extractCall.entities,
                             relationships |->
                                 extractRelationships(extractCall.entities, response)]]
    /\ UNCHANGED <<storeVars, edcVars, intVars, txs, procVars, loadCall, pool, fetchCall, canonCall, retryCall, toolCall>>

ExtractInit == StoreEmpty /\ EDCIdle /\ IntegrationIdle /\ NoTransactions /\ CallsIdle /\ ProcessStarted

ExtractNext ==
    \/ \E text \in Texts, response \in EntityResponses : CallExtract(text, response)
    \/ /\ extractCall.called
       /\ \E response \in RelationshipResponses : ExtractReturns(response)

SpecExtract == ExtractInit /\ [][ExtractNext]_vars

(***************************************************************************)
(* LlamaParseLoader.load: cache, upload, polling of the parse job, local   *)
(* fallback                                                                *)
(***************************************************************************)
MaxPolls == 3       \* polls are counted up to this number ("or more")

\* What a request may throw once withRetry has given up, and what the file
\* system may throw.
FetchErrors == {"ECONNRESET", "Payment Required"}
FileErrors == {"ENOENT"}

\* The status lines of a refused upload.
UploadRefusals == {"Payment Required", "Internal Server Error"}

\* The files load is called with.
LoadPaths == {"paper.pdf", "other.pdf"}

\* The states the parse service reports for a job.
JobStatuses == {"PENDING", "PARSING", "SUCCESS", "FAILED"}

\* error.message?.includes("Payment Required") || error.message?.includes("402")
isQuota(message) == includes(message, "Payment Required") \/ includes(message, "402")

\* The catch of load: a quota error falls back to the local parser, any
\* other error is thrown to the caller.
caught(call, message) ==
    IF isQuota(message)
    THEN [call EXCEPT !.pc = "fallback"]
    ELSE [call EXCEPT !.pc = "thrown", !.error = message]

\* while (true): the job is neither SUCCESS nor FAILED and the loop polls
\* again.
pollAgain(call, status) ==
    [call EXCEPT !.polls = Min(@ + 1, MaxPolls), !.status = status]

\* load is called: the cached markdown is returned, or the file goes to the
\* local parser (no API key), or it is uploaded.
CallLoad(filePath, cached, hasKey) ==
    /\ loadCall = NotCalled
    /\ loadCall' = [called |-> TRUE, filePath |-> filePath, polls |-> 0,
                    status |-> "none", error |-> "none",
                    cache |-> IF cached THEN "hit" ELSE "none",
                    text |-> IF cached THEN "cached markdown" ELSE "none",
                    pc |-> IF cached THEN "returned"
                           ELSE IF hasKey THEN "upload" ELSE "local"]
    /\ UNCHANGED <<storeVars, edcVars, intVars, txs, procVars, pool, fetchCall, extractCall,
                   canonCall, retryCall, toolCall>>

\* The upload request: it throws, it is refused, or it returns the job id.
Upload ==
    /\ loadCall.called
    /\ loadCall.pc = "upload"
    /\ \/ \E e \in FetchErrors \cup FileErrors : loadCall' = caught(loadCall, e)
       \/ \E refusal \in UploadRefusals :
              loadCall' = caught(loadCall,
                                 IF refusal = "Payment Required"
                                 THEN "Failed to upload file: Payment Required"
                                 ELSE "Failed to upload file")
       \/ loadCall' = [loadCall EXCEPT !.pc = "poll"]
    /\ UNCHANGED <<storeVars, edcVars, intVars, txs, procVars, pool, fetchCall, extractCall,
                   canonCall, retryCall, toolCall>>

\* One pass of the polling loop: two seconds of sleep, then the job's status.
Poll ==
    /\ loadCall.called
    /\ loadCall.pc = "poll"
    /\ \/ \E e \in FetchErrors : loadCall' = caught(loadCall, e)
       \/ \E status \in JobStatuses :
              loadCall' =
                  IF status = "SUCCESS"
                  THEN [loadCall EXCEPT !.pc = "result", !.status = status]
                  ELSE IF status = "FAILED"
                  THEN caught([loadCall EXCEPT !.status = status], "LlamaParse job failed")
                  ELSE pollAgain(loadCall, status)
    /\ UNCHANGED <<storeVars, edcVars, intVars, txs, procVars, pool, fetchCall, extractCall,
                   canonCall, retryCall, toolCall>>

\* The markdown is fetched and written to the cache.
Result ==
    /\ loadCall.called
    /\ loadCall.pc = "result"
    /\ \/ \E e \in FetchErrors \cup FileErrors : loadCall' = caught(loadCall, e)
       \/ loadCall' = [loadCall EXCEPT !.pc = "returned", !.text = "markdown",
                                        !.cache = "written"]
    /\ UNCHANGED <<storeVars, edcVars, intVars, txs, procVars, pool, fetchCall, extractCall,
                   canonCall, retryCall, toolCall>>

\* LocalPdfLoader.load, for want of an API key or after a quota error.
LocalFallback ==
    /\ loadCall.called
    /\ loadCall.pc \in {"local", "fallback"}
    /\ \/ \E e \in FileErrors : loadCall' = [loadCall EXCEPT !.pc = "thrown", !.error = e]
       \/ loadCall' = [loadCall EXCEPT !.pc = "returned", !.text = "pdf text",
                                        !.cache = IF loadCall.pc = "fallback"
                                                  THEN "written" ELSE @]
    /\ UNCHANGED <<storeVars, edcVars, intVars, txs, procVars, pool, fetchCall, extractCall,
                   canonCall, retryCall, toolCall>>

LoadInit == StoreEmpty /\ EDCIdle /\ IntegrationIdle /\ NoTransactions /\ CallsIdle /\ ProcessStarted

LoadNext ==
    \/ \E filePath \in LoadPaths, cached \in BOOLEAN, hasKey \in BOOLEAN :
           CallLoad(filePath, cached, hasKey)
    \/ Upload
    \/ Poll
    \/ Result
    \/ LocalFallback

SpecLoad == LoadInit /\ [][LoadNext]_vars

\* The timers fire and the requests are answered: a call that can take a
\* step takes one.
SpecLoadFair == SpecLoad /\ WF_vars(LoadNext)

(***************************************************************************)
(* EDC workflow                                                            *)
(***************************************************************************)
loadEvent(paperPath) == [type |-> "load", paperPath |-> paperPath]
extractEvent(text, paperPath) == [type |-> "extract", text |-> text, paperPath |-> paperPath]
defineEvent(graph, paperPath) == [type |-> "define", graph |-> graph, paperPath |-> paperPath]
canonicalizeEventMut(graph, paperPath) ==
    [type |-> "save", graph |-> graph, paperPath |-> paperPath]
canonicalizeEvent(graph, paperPath) ==
    [type |-> "canonicalize", graph |-> graph, paperPath |-> paperPath]
saveEvent(graph, paperPath) == [type |-> "save", graph |-> graph, paperPath |-> paperPath]
errorEvent(stage, error, paperPath) ==
    [type |-> "error", stage |-> stage, error |-> error, paperPath |-> paperPath]

\* An event of the given type waits for its handler.
Pending(type) == edcQueue # <<>> /\ Head(edcQueue).type = type

\* The handler of the first pending event returns after sending `sent`.
\* sendEvent puts an event on the stream and hands it to its handler.
Handled(sent, thrown) ==
    /\ edcQueue' = Tail(edcQueue) \o sent
    /\ edcStream' = edcStream \o sent
    /\ edcThrown' = edcThrown + thrown

\* DrizzleGraphStore.close ends the client, for every store of the process.
close(c) == "ended"

releaseStoreMut(c) == close(c)

\* What a handler does with its store once it is done with it: the call of
\* close is commented out, the client is left as it was.
releaseStore(c) == c

\* The saveGraph call of a handler, applied to the tables.
Persisted(graph, res) ==
    /\ entities' = res.entities
    /\ relationships' = res.relationships
    /\ lastSave' = [graph |-> graph, called |-> TRUE, ok |-> res.ok,
                    repeated |-> FALSE,
                    preEntities |-> entities, preRelationships |-> relationships]
    /\ nSaves' = nSaves + 1

\* The caller creates a context and sends the LoadEvent.
StartEDC(paperPath) ==
    /\ edcStream = <<>>
    /\ edcQueue' = <<loadEvent(paperPath)>>
    /\ edcStream' = <<loadEvent(paperPath)>>
    /\ UNCHANGED <<edcThrown, edcResponse, storeVars, client>>

LoadHandler ==
    /\ Pending("load")
    /\ LET ev == Head(edcQueue)
       IN  \E loaded \in LoadOutcomes(ev.paperPath) :
               IF loaded.ok
               THEN Handled(<<extractEvent(loaded.text, ev.paperPath)>>, 0)
               ELSE Handled(<<errorEvent("load", loaded.error, ev.paperPath)>>, 1)
    /\ UNCHANGED <<edcResponse, storeVars, client>>

ExtractHandler ==
    /\ Pending("extract")
    /\ LET ev == Head(edcQueue)
       IN  \E extracted \in ExtractOutcomes(ev.text), written \in WriteOutcomes :
               IF ~extracted.ok
               THEN Handled(<<errorEvent("extract", extracted.error, ev.paperPath)>>, 1)
               ELSE IF ~written.ok
               THEN Handled(<<errorEvent("extract", written.error, ev.paperPath)>>, 1)
               ELSE Handled(<<defineEvent(extracted.graph, ev.paperPath)>>, 0)
    /\ UNCHANGED <<edcResponse, storeVars, client>>

DefineHandler ==
    /\ Pending("define")
    /\ LET ev == Head(edcQueue)
       IN  \E refined \in DefineOutcomes(ev.graph), written \in WriteOutcomes :
               /\ IF ~refined.ok
                  THEN Handled(<<errorEvent("define", refined.error, ev.paperPath)>>, 1)
                  ELSE IF ~written.ok
                  THEN Handled(<<errorEvent("define", written.error, ev.paperPath)>>, 1)
                  ELSE Handled(<<canonicalizeEvent(refined.graph, ev.paperPath)>>, 0)
               /\ edcResponse' = IF "response" \in DOMAIN refined
                                 THEN refined.response
                                 ELSE edcResponse
    /\ UNCHANGED <<storeVars, client>>

CanonicalizeHandler ==
    /\ Pending("canonicalize")
    /\ LET ev == Head(edcQueue)
           finalGraph == canonicalize(ev.graph)
       IN  \E written \in WriteOutcomes :
               IF ~written.ok
               THEN Handled(<<errorEvent("canonicalize", written.error, ev.paperPath)>>, 1)
               ELSE Handled(<<saveEvent(finalGraph, ev.paperPath)>>, 0)
    /\ UNCHANGED <<edcResponse, storeVars, client>>

SaveError == "violates foreign key constraint"

SaveHandler ==
    /\ Pending("save")
    /\ LET ev == Head(edcQueue)
           res == saveGraph(entities, relationships, ev.graph)
       IN  /\ Persisted(ev.graph, res)
           /\ IF res.ok
              THEN Handled(<<[type |-> "complete", success |-> TRUE,
                              paperPath |-> ev.paperPath,
                              entitiesCount |-> Len(ev.graph.entities),
                              relationshipsCount |-> Len(ev.graph.relationships)]>>, 0)
              ELSE Handled(<<errorEvent("save", SaveError, ev.paperPath)>>, 1)
    /\ client' = releaseStore(client)
    /\ UNCHANGED edcResponse

onErrorMut(ev) == <<>>

onErrorSavesMut(ev) ==
    <<saveEvent([entities |-> <<>>, relationships |-> <<>>], ev.paperPath)>>

\* The events the error handler sends.
onError(ev) ==
    <<[type |-> "complete", success |-> FALSE, paperPath |-> ev.paperPath,
       entitiesCount |-> 0, relationshipsCount |-> 0]>>

ErrorHandler ==
    /\ Pending("error")
    /\ Handled(onError(Head(edcQueue)), 0)
    /\ UNCHANGED <<edcResponse, storeVars, client>>

EDCInit == StoreEmpty /\ EDCIdle /\ IntegrationIdle /\ NoTransactions /\ CallsIdle /\ ProcessStarted

EDCNext ==
    \/ \E paperPath \in Papers : StartEDC(paperPath) /\ UNCHANGED <<intVars, txs, callVars, exited>>
    \/ LoadHandler /\ UNCHANGED <<intVars, txs, callVars, exited>>
    \/ ExtractHandler /\ UNCHANGED <<intVars, txs, callVars, exited>>
    \/ DefineHandler /\ UNCHANGED <<intVars, txs, callVars, exited>>
    \/ CanonicalizeHandler /\ UNCHANGED <<intVars, txs, callVars, exited>>
    \/ SaveHandler /\ UNCHANGED <<intVars, txs, callVars, exited>>
    \/ ErrorHandler /\ UNCHANGED <<intVars, txs, callVars, exited>>

SpecEDC == EDCInit /\ [][EDCNext]_vars

(***************************************************************************)
(* Integration: candidate retrieval and entity resolution                  *)
(***************************************************************************)
IntIds == {"a", "b", "c"}
NewIds == {"a", "b"}
IntNames == {"X"}

CandidatesPerEntity == 5

\* The subsets a LIMIT k (or slice(0, k)) may keep of rows that have no order.
Limited(rows, k) ==
    IF Cardinality(rows) <= k THEN {rows}
    ELSE {kept \in SUBSET rows : Cardinality(kept) = k}

\* The candidates of one input among the fetched rows: another id, and a name
\* that includes or is included in the input's (lower-cased; the names of the
\* model are single letters, so inclusion is equality) or the same type.
matches(ents, fetched, input) ==
    {id \in fetched :
        /\ id # input.id
        /\ \/ toLowerCase(ents[id].name) = toLowerCase(input.name)
           \/ ents[id].type = input.type}

\* result.set(input.id, matches) for each input that has matches.
RECURSIVE groupCandidates(_, _, _, _)
groupCandidates(ents, fetched, inputs, result) ==
    IF inputs = <<>> THEN {result}
    ELSE LET input == Head(inputs)
             found == matches(ents, fetched, input)
         IN  IF found = {}
             THEN groupCandidates(ents, fetched, Tail(inputs), result)
             ELSE UNION {groupCandidates(ents, fetched, Tail(inputs),
                             [id \in DOMAIN result \cup {input.id} |->
                                 IF id = input.id THEN kept ELSE result[id]]) :
                         kept \in Limited(found, CandidatesPerEntity)}

\* DrizzleGraphStore.fetchSimilarEntitiesBatch: the maps (input id -> ids of
\* its candidates) the call may return.
fetchSimilarEntitiesBatch(ents, inputEntities) ==
    IF Len(inputEntities) = 0 THEN {<<>>}
    ELSE LET types == {inputEntities[i].type : i \in DOMAIN inputEntities}
             ofType == {id \in DOMAIN ents : ents[id].type \in types}
         IN  UNION {groupCandidates(ents, fetched, inputEntities, <<>>) :
                    fetched \in Limited(ofType, Len(inputEntities) * CandidatesPerEntity)}

\* What the resolver model answers for one entity: text that does not parse
\* (or a failed call), or a decision with an action and, possibly, a targetId.
ResolverActions == {"MERGE", "CREATE", "SKIP"}

ResolverAnswers ==
    {[parsed |-> FALSE]}
    \cup {[parsed |-> TRUE, action |-> a] : a \in ResolverActions}
    \cup {[parsed |-> TRUE, action |-> "MERGE", targetId |-> t] : t \in IntIds}

NotAsked == [asked |-> FALSE]

resolutionTaskMut(entity, candidates, answer) ==
    IF entity.id \notin DOMAIN candidates
    THEN [entityId |-> entity.id, targetId |-> entity.id,
          log |-> [newEntityId |-> entity.id, action |-> "CREATE", confidence |-> "1.0"]]
    ELSE IF ~answer.parsed
    THEN [entityId |-> entity.id, targetId |-> entity.id,
          log |-> [newEntityId |-> entity.id, action |-> "CREATE", confidence |-> "1.0"]]
    ELSE LET isMerge == answer.action = "MERGE" /\ "targetId" \in DOMAIN answer
         IN  [entityId |-> entity.id,
              targetId |-> IF isMerge THEN answer.targetId ELSE entity.id,
              log |-> IF "targetId" \in DOMAIN answer
                      THEN [newEntityId |-> entity.id, action |-> answer.action,
                            targetId |-> answer.targetId, confidence |-> "0.9"]
                      ELSE [newEntityId |-> entity.id, action |-> answer.action,
                            confidence |-> "0.9"]]

\* One resolution task.
resolutionTask(entity, candidates, answer) ==
    IF entity.id \notin DOMAIN candidates
    THEN [entityId |-> entity.id, targetId |-> entity.id,
          log |-> [newEntityId |-> entity.id, action |-> "CREATE", confidence |-> "1.0"]]
    ELSE IF ~answer.parsed
    THEN [entityId |-> entity.id, targetId |-> entity.id,
          log |-> [newEntityId |-> entity.id, action |-> "CREATE", confidence |-> "0.0"]]
    ELSE LET isMerge == answer.action = "MERGE" /\ "targetId" \in DOMAIN answer
         IN  [entityId |-> entity.id,
              targetId |-> IF isMerge THEN answer.targetId ELSE entity.id,
              log |-> IF "targetId" \in DOMAIN answer
                      THEN [newEntityId |-> entity.id, action |-> answer.action,
                            targetId |-> answer.targetId, confidence |-> "0.9"]
                      ELSE [newEntityId |-> entity.id, action |-> answer.action,
                            confidence |-> "0.9"]]

\* The answers the tasks of a fragment may get: one per entity that has
\* candidates; the other entities are not put to the model.
AnswersFor(newGraph, candidates) ==
    {answers \in [DOMAIN newGraph.entities -> ResolverAnswers \cup {NotAsked}] :
        \A i \in DOMAIN answers :
            (answers[i] = NotAsked) <=> (newGraph.entities[i].id \notin DOMAIN candidates)}

\* results.forEach(r => idMapping.set(r.entityId, r.targetId))
RECURSIVE aggregate(_, _)
aggregate(results, idMapping) ==
    IF results = <<>> THEN idMapping
    ELSE LET r == Head(results)
         IN  aggregate(Tail(results),
                 [id \in DOMAIN idMapping \cup {r.entityId} |->
                     IF id = r.entityId THEN r.targetId ELSE idMapping[id]])

resolveMut(newGraph, candidates, answers) ==
    LET results == [i \in DOMAIN newGraph.entities |->
                       resolutionTask(newGraph.entities[i], candidates, answers[i])]
        idMapping == aggregate(results, <<>>)
        mergeLog == [i \in DOMAIN results |-> results[i].log]
        resolvedEntities == SelectSeq(newGraph.entities, LAMBDA e : idMapping[e.id] = e.id)
        resolvedRelationships ==
            [i \in DOMAIN newGraph.relationships |->
                [newGraph.relationships[i] EXCEPT
                     !.sourceId = Remapped(idMapping, @),
                     !.targetId = Remapped(idMapping, @)]]
        mergeTargetIds ==
            {idMapping[id] : id \in DOMAIN idMapping}
    IN  [resolvedGraph |->
             IF mergeTargetIds # {}
             THEN [entities |-> resolvedEntities, relationships |-> resolvedRelationships,
                   referencedEntityIds |-> mergeTargetIds]
             ELSE [entities |-> resolvedEntities, relationships |-> resolvedRelationships],
         mergeLog |-> mergeLog]

\* The resolve step from the task results to the resolved graph and the log.
resolve(newGraph, candidates, answers) ==
    LET results == [i \in DOMAIN newGraph.entities |->
                       resolutionTask(newGraph.entities[i], candidates, answers[i])]
        idMapping == aggregate(results, <<>>)
        mergeLog == [i \in DOMAIN results |-> results[i].log]
        resolvedEntities == SelectSeq(newGraph.entities, LAMBDA e : idMapping[e.id] = e.id)
        resolvedRelationships ==
            [i \in DOMAIN newGraph.relationships |->
                [newGraph.relationships[i] EXCEPT
                     !.sourceId = Remapped(idMapping, @),
                     !.targetId = Remapped(idMapping, @)]]
        mergeTargetIds ==
            {idMapping[id] : id \in DOMAIN idMapping}
                \ {resolvedEntities[i].id : i \in DOMAIN resolvedEntities}
    IN  [resolvedGraph |->
             IF mergeTargetIds # {}
             THEN [entities |-> resolvedEntities, relationships |-> resolvedRelationships,
                   referencedEntityIds |-> mergeTargetIds]
             ELSE [entities |-> resolvedEntities, relationships |-> resolvedRelationships],
         mergeLog |-> mergeLog]

(***************************************************************************)
(* Integration workflow                                                    *)
(***************************************************************************)
integrateEvent(newGraph, paperPath) ==
    [type |-> "integrate", newGraph |-> newGraph, paperPath |-> paperPath]
candidatesRetrievedEvent(newGraph, candidates, paperPath) ==
    [type |-> "candidatesRetrieved", newGraph |-> newGraph, candidates |-> candidates,
     paperPath |-> paperPath]
entitiesResolvedEvent(resolvedGraph, mergeLog, paperPath) ==
    [type |-> "entitiesResolved", resolvedGraph |-> resolvedGraph, mergeLog |-> mergeLog,
     paperPath |-> paperPath]
integrationErrorEvent(stage, error, paperPath) ==
    [type |-> "integrationError", stage |-> stage, error |-> error, paperPath |-> paperPath]

IntPending(type) == intQueue # <<>> /\ Head(intQueue).type = type

IntHandled(sent, thrown) ==
    /\ intQueue' = Tail(intQueue) \o sent
    /\ intStream' = intStream \o sent
    /\ intThrown' = intThrown + thrown

\* The fragments handed to the workflow: entities with new-fragment ids,
\* relationships from a new-fragment id to any id.
NewGraphs ==
    [entities : SeqsUpTo(Entity(NewIds, IntNames), MaxEnts),
     relationships : SeqsUpTo({r \in Relationship(IntIds) : r.sourceId \in NewIds},
                              MaxRels)]

\* The caller creates a context and sends the IntegrateEvent.
StartIntegration(newGraph, paperPath) ==
    /\ intStream = <<>>
    /\ intQueue' = <<integrateEvent(newGraph, paperPath)>>
    /\ intStream' = <<integrateEvent(newGraph, paperPath)>>
    /\ UNCHANGED <<intThrown, intAnswers, storeVars, client>>

\* A failed query of the store
QueryOutcomes == {[ok |-> TRUE]} \cup Raised

RetrieveHandler ==
    /\ IntPending("integrate")
    /\ LET ev == Head(intQueue)
       IN  \E queried \in QueryOutcomes :
               IF queried.ok
               THEN \E candidates \in fetchSimilarEntitiesBatch(entities, ev.newGraph.entities) :
                        IntHandled(<<candidatesRetrievedEvent(ev.newGraph, candidates,
                                                               ev.paperPath)>>, 0)
               ELSE IntHandled(<<integrationErrorEvent("retrieve", queried.error,
                                                       ev.paperPath)>>, 1)
    /\ client' = releaseStore(client)
    /\ UNCHANGED <<intAnswers, storeVars>>

ResolveHandler ==
    /\ IntPending("candidatesRetrieved")
    /\ LET ev == Head(intQueue)
       IN  \E answers \in AnswersFor(ev.newGraph, ev.candidates), written \in WriteOutcomes :
               LET resolved == resolve(ev.newGraph, ev.candidates, answers)
               IN  IF ~written.ok
                   THEN /\ IntHandled(<<integrationErrorEvent("resolve", written.error,
                                                              ev.paperPath)>>, 1)
                        /\ UNCHANGED intAnswers
                   ELSE /\ IntHandled(<<entitiesResolvedEvent(resolved.resolvedGraph,
                                            resolved.mergeLog, ev.paperPath)>>, 0)
                        /\ intAnswers' = answers
    /\ UNCHANGED <<storeVars, client>>

CountAction(mergeLog, action) ==
    Cardinality({i \in DOMAIN mergeLog : mergeLog[i].action = action})

PersistHandler ==
    /\ IntPending("entitiesResolved")
    /\ LET ev == Head(intQueue)
           res == saveGraph(entities, relationships, ev.resolvedGraph)
       IN  /\ Persisted(ev.resolvedGraph, res)
           /\ IF res.ok
              THEN IntHandled(<<[type |-> "integrationComplete", success |-> TRUE,
                                 paperPath |-> ev.paperPath,
                                 entitiesProcessed |-> Len(ev.mergeLog),
                                 entitiesMerged |-> CountAction(ev.mergeLog, "MERGE"),
                                 entitiesCreated |-> CountAction(ev.mergeLog, "CREATE"),
                                 resolvedGraph |-> ev.resolvedGraph]>>, 0)
              ELSE IntHandled(<<integrationErrorEvent("persist", SaveError,
                                                      ev.paperPath)>>, 1)
    /\ client' = releaseStore(client)
    /\ UNCHANGED intAnswers

onIntegrationErrorMut(ev) ==
    <<[type |-> "integrationComplete", success |-> FALSE,
       paperPath |-> ev.paperPath, entitiesProcessed |-> 0,
       entitiesMerged |-> 0, entitiesCreated |-> 0, error |-> ev.error],
      integrateEvent([entities |-> <<>>, relationships |-> <<>>], ev.paperPath)>>

\* The events the error handler sends.
onIntegrationError(ev) ==
    <<[type |-> "integrationComplete", success |-> FALSE,
       paperPath |-> ev.paperPath, entitiesProcessed |-> 0,
       entitiesMerged |-> 0, entitiesCreated |-> 0, error |-> ev.error]>>

IntegrationErrorHandler ==
    /\ IntPending("integrationError")
    /\ IntHandled(onIntegrationError(Head(intQueue)), 0)
    /\ UNCHANGED <<intAnswers, storeVars, client>>

\* The stores an Integration run may find: what earlier saveGraph calls left.
SeedFragments ==
    {[entities |-> es, relationships |-> <<>>] :
        es \in {<<>>} \cup {<<e>> : e \in Entity({"b", "c"}, IntNames)}
               \cup {<<e, f>> : e \in Entity({"b"}, IntNames), f \in Entity({"c"}, IntNames)}}

IntegrationInit ==
    /\ \E seed \in SeedFragments :
           entities = saveGraph(EmptyEntities, EmptyRelationships, seed).entities
    /\ relationships = EmptyRelationships
    /\ lastSave = NoSave
    /\ nSaves = 0
    /\ EDCIdle
    /\ IntegrationIdle
    /\ NoTransactions
    /\ CallsIdle
    /\ ProcessStarted

IntegrationNext ==
    \/ /\ intStream = <<>>
       /\ \E newGraph \in NewGraphs, paperPath \in Papers :
              StartIntegration(newGraph, paperPath) /\ UNCHANGED <<edcVars, txs, callVars, exited>>
    \/ RetrieveHandler /\ UNCHANGED <<edcVars, txs, callVars, exited>>
    \/ ResolveHandler /\ UNCHANGED <<edcVars, txs, callVars, exited>>
    \/ PersistHandler /\ UNCHANGED <<edcVars, txs, callVars, exited>>
    \/ IntegrationErrorHandler /\ UNCHANGED <<edcVars, txs, callVars, exited>>

SpecIntegration == IntegrationInit /\ [][IntegrationNext]_vars

(***************************************************************************)
(* Candidate retrieval, called on its own against a table with more rows   *)
(* than a query returns                                                    *)
(***************************************************************************)
FetchIds == {"a", "b", "c", "d", "e", "f"}
FetchNames == {"X", "q"}
FetchTypes == {"Method", "Dataset"}

\* The tables the calls may find.
FetchTables ==
    UNION {[ids -> [name : FetchNames, type : FetchTypes, version : {1}]] :
               ids \in SUBSET FetchIds}

\* The entities handed to the calls: one that has a row and one that has none.
FetchInputs == [id : {"a", "z"}, name : {"X"}, type : FetchTypes]

\* WHERE name ILIKE '%name%' OR type = type (the names of the model are
\* single letters, so the pattern matches the names equal up to case).
similar(ents, entity) ==
    {id \in DOMAIN ents :
        \/ toLowerCase(ents[id].name) = toLowerCase(entity.name)
        \/ ents[id].type = entity.type}

withoutSelfMut(kept, entity) == kept

\* candidates.filter(c => c.id !== entity.id)
withoutSelf(kept, entity) == kept \ {entity.id}

\* DrizzleGraphStore.fetchSimilarEntities: the candidates (their ids) the
\* call may return.
fetchSimilarEntities(ents, entity) ==
    {withoutSelf(kept, entity) :
         kept \in Limited(similar(ents, entity), CandidatesPerEntity)}

CallFetchSimilarEntities(entity) ==
    /\ fetchCall = NotCalled
    /\ \E queried \in QueryOutcomes :
           IF queried.ok
           THEN \E found \in fetchSimilarEntities(entities, entity) :
                    fetchCall' = [called |-> TRUE, batch |-> FALSE, returned |-> TRUE,
                                  inputs |-> <<entity>>, output |-> found]
           ELSE fetchCall' = [called |-> TRUE, batch |-> FALSE, returned |-> FALSE,
                              inputs |-> <<entity>>, error |-> queried.error]
    /\ UNCHANGED <<storeVars, edcVars, intVars, txs, procVars, loadCall, pool, extractCall, canonCall,
                   retryCall, toolCall>>

CallFetchSimilarEntitiesBatch(inputEntities) ==
    /\ fetchCall = NotCalled
    /\ \E queried \in QueryOutcomes :
           IF queried.ok
           THEN \E found \in fetchSimilarEntitiesBatch(entities, inputEntities) :
                    fetchCall' = [called |-> TRUE, batch |-> TRUE, returned |-> TRUE,
                                  inputs |-> inputEntities, output |-> found]
           ELSE fetchCall' = [called |-> TRUE, batch |-> TRUE, returned |-> FALSE,
                              inputs |-> inputEntities, error |-> queried.error]
    /\ UNCHANGED <<storeVars, edcVars, intVars, txs, procVars, loadCall, pool, extractCall, canonCall,
                   retryCall, toolCall>>

FetchInit ==
    /\ entities \in FetchTables
    /\ relationships = EmptyRelationships
    /\ lastSave = NoSave
    /\ nSaves = 0
    /\ EDCIdle
    /\ IntegrationIdle
    /\ NoTransactions
    /\ CallsIdle
    /\ ProcessStarted

FetchNext ==
    \/ /\ fetchCall = NotCalled
       /\ \E entity \in FetchInputs : CallFetchSimilarEntities(entity)
    \/ /\ fetchCall = NotCalled
       /\ \E inputEntities \in SeqsUpTo(FetchInputs, 2) :
              CallFetchSimilarEntitiesBatch(inputEntities)

SpecFetch == FetchInit /\ [][FetchNext]_vars

(***************************************************************************)
(* The Resolve step's task pool: parallelWithLimit over the resolution     *)
(* tasks of a fragment, task by task                                       *)
(***************************************************************************)
MaxTasks == 12          \* entities of the fragment handed to the Resolve step
ResolveLimit == 10      \* the limit the Resolve step passes to parallelWithLimit

\* The entities of the fragment are named by their position: the task of
\* the k-th entity returns a result that carries its id.
taskResult(k) ==
    [entityId |-> k, targetId |-> k,
     log |-> [newEntityId |-> k, action |-> "CREATE", confidence |-> "0.9"]]

sliceMut(n, i, limit) == (i + 1)..n

\* items.slice(i, i + limit), as the positions (from 1) of the items.
slice(n, i, limit) == (i + 1)..Min(i + limit, n)

promiseAllMut(batch, i) ==
    [k \in 1..Cardinality(batch) |-> taskResult(i + Cardinality(batch) + 1 - k)]

\* await Promise.all(batch.map(fn)): the results in the order of the batch.
promiseAll(batch, i) == [k \in 1..Cardinality(batch) |-> taskResult(i + k)]

\* The loop of parallelWithLimit at offset i: it returns, or it starts every
\* task of the next batch.
loop(n, limit, i, results, reordered) ==
    IF i < n
    THEN [called |-> TRUE, returned |-> FALSE, n |-> n, limit |-> limit, i |-> i,
          running |-> slice(n, i, limit), results |-> results, reordered |-> reordered]
    ELSE [called |-> TRUE, returned |-> TRUE, n |-> n, limit |-> limit, i |-> i,
          running |-> {}, results |-> results, reordered |-> reordered,
          idMapping |-> aggregate(results, <<>>),
          mergeLog |-> [k \in DOMAIN results |-> results[k].log]]

\* The Resolve step calls parallelWithLimit(resolutionTasks, task => task(), 10).
CallParallelWithLimit(n) ==
    /\ pool = NotCalled
    /\ pool' = loop(n, ResolveLimit, 0, <<>>, FALSE)
    /\ UNCHANGED <<storeVars, edcVars, intVars, txs, procVars, loadCall, extractCall, fetchCall,
                   canonCall, retryCall, toolCall>>

\* The resolver call of one task in flight is answered.
TaskSettles(k) ==
    /\ pool.called
    /\ k \in pool.running
    /\ pool' = [pool EXCEPT !.running = @ \ {k},
                            !.reordered = @ \/ \E j \in pool.running : j < k]
    /\ UNCHANGED <<storeVars, edcVars, intVars, txs, procVars, loadCall, extractCall, fetchCall,
                   canonCall, retryCall, toolCall>>

\* Every task of the batch has settled: its results are pushed and the loop
\* goes on.
BatchSettles ==
    /\ pool.called
    /\ ~pool.returned
    /\ pool.running = {}
    /\ LET batch == slice(pool.n, pool.i, pool.limit)
       IN  pool' = loop(pool.n, pool.limit, pool.i + pool.limit,
                        pool.results \o promiseAll(batch, pool.i), pool.reordered)
    /\ UNCHANGED <<storeVars, edcVars, intVars, txs, procVars, loadCall, extractCall, fetchCall,
                   canonCall, retryCall, toolCall>>

PoolInit == StoreEmpty /\ EDCIdle /\ IntegrationIdle /\ NoTransactions /\ CallsIdle /\ ProcessStarted

PoolNext ==
    \/ \E n \in 0..MaxTasks : CallParallelWithLimit(n)
    \/ /\ pool.called
       /\ \E k \in pool.running : TaskSettles(k)
    \/ BatchSettles

SpecPool == PoolInit /\ [][PoolNext]_vars

(***************************************************************************)
(* processPaper: the tool that runs the EDC workflow and then the          *)
(* Integration workflow and reads the CompleteEvent of each stream         *)
(***************************************************************************)
ToolErrors == {"", "ETIMEDOUT", "EACCES"}
ToolGraphs ==
    {[entities |-> <<>>, relationships |-> <<>>],
     [entities |-> <<[id |-> "a", name |-> "X", type |-> "Method"]>>, relationships |-> <<>>]}

\* The CompleteEvents of the event type: finalGraph and error are optional.
CompleteEvents ==
    LET base == [type : {"complete"}, success : BOOLEAN , paperPath : Papers]
        withGraph == {[f \in DOMAIN e \cup {"finalGraph"} |->
                          IF f = "finalGraph" THEN g ELSE e[f]] : e \in base, g \in ToolGraphs}
        withError(es) == {[f \in DOMAIN e \cup {"error"} |->
                              IF f = "error" THEN m ELSE e[f]] : e \in es, m \in ToolErrors}
    IN  base \cup withGraph \cup withError(base \cup withGraph)

\* The IntegrationCompleteEvents of the event type: error is optional.
IntegrationCompleteEvents ==
    LET base == [type : {"integrationComplete"}, success : BOOLEAN , paperPath : Papers,
                 entitiesMerged : 0..1, entitiesCreated : 0..1]
    IN  base \cup {[f \in DOMAIN e \cup {"error"} |->
                       IF f = "error" THEN m ELSE e[f]] : e \in base, m \in ToolErrors}

\* A field that is present and not the empty string.
Truthy(data, field) == field \in DOMAIN data /\ data[field] # ""

OrElseMut(data, field, default) == IF field \in DOMAIN data THEN data[field] ELSE ""

\* data.field || default
OrElse(data, field, default) == IF Truthy(data, field) THEN data[field] ELSE default

NoStats ==
    [entitiesExtracted |-> 0, relationshipsExtracted |-> 0, entitiesMerged |-> 0,
     entitiesCreated |-> 0]

\* What the tool makes of the EDC stream's CompleteEvent: a failure result, or
\* the graph to integrate.
edcResult(data) ==
    IF ~data.success \/ Truthy(data, "error")
    THEN [success |-> FALSE,
          error |-> OrElse(data, "error", "EDC pipeline failed (unknown error)"),
          entities |-> <<>>, relationships |-> <<>>, stats |-> NoStats]
    ELSE IF "finalGraph" \notin DOMAIN data
    THEN [success |-> FALSE, error |-> "No graph extracted from EDC workflow",
          entities |-> <<>>, relationships |-> <<>>, stats |-> NoStats]
    ELSE [success |-> TRUE, extractedGraph |-> data.finalGraph]

\* What the tool makes of the Integration stream's IntegrationCompleteEvent.
integrationResult(extractedGraph, data) ==
    IF ~data.success \/ Truthy(data, "error")
    THEN [success |-> FALSE,
          error |-> OrElse(data, "error", "Integration pipeline failed"),
          entities |-> extractedGraph.entities,
          relationships |-> extractedGraph.relationships,
          stats |-> [entitiesExtracted |-> Len(extractedGraph.entities),
                     relationshipsExtracted |-> Len(extractedGraph.relationships),
                     entitiesMerged |-> 0, entitiesCreated |-> 0]]
    ELSE [success |-> TRUE,
          entities |-> extractedGraph.entities,
          relationships |-> extractedGraph.relationships,
          stats |-> [entitiesExtracted |-> Len(extractedGraph.entities),
                     relationshipsExtracted |-> Len(extractedGraph.relationships),
                     entitiesMerged |-> data.entitiesMerged,
                     entitiesCreated |-> data.entitiesCreated]]

\* The catch block of the tool.
criticalFailure(msg) ==
    [success |-> FALSE, error |-> "Critical tool failure: " \o msg,
     entities |-> <<>>, relationships |-> <<>>, stats |-> NoStats]

\* execute: the EDC workflow is created and the LoadEvent sent.
CallProcessPaper(paperPath) ==
    /\ toolCall = NotCalled
    /\ toolCall' = [called |-> TRUE, pc |-> "edc", paperPath |-> paperPath]
    /\ UNCHANGED <<storeVars, edcVars, intVars, txs, procVars, loadCall, pool, fetchCall, extractCall, canonCall, retryCall>>

\* The EDC stream delivers its CompleteEvent: the tool returns a failure, or
\* creates the Integration workflow and sends the IntegrateEvent.
ToolReadsComplete(data) ==
    /\ toolCall.called
    /\ toolCall.pc = "edc"
    /\ LET res == edcResult(data)
       IN  toolCall' =
               IF res.success
               THEN [called |-> TRUE, pc |-> "integration", paperPath |-> toolCall.paperPath,
                     edcData |-> data, extractedGraph |-> res.extractedGraph]
               ELSE [called |-> TRUE, pc |-> "returned", paperPath |-> toolCall.paperPath,
                     edcData |-> data, result |-> res]
    /\ UNCHANGED <<storeVars, edcVars, intVars, txs, procVars, loadCall, pool, fetchCall, extractCall, canonCall, retryCall>>

\* The Integration stream delivers its IntegrationCompleteEvent.
ToolReadsIntegrationComplete(data) ==
    /\ toolCall.called
    /\ toolCall.pc = "integration"
    /\ toolCall' = [called |-> TRUE, pc |-> "returned", paperPath |-> toolCall.paperPath,
                    edcData |-> toolCall.edcData, integrationData |-> data,
                    result |-> integrationResult(toolCall.extractedGraph, data)]
    /\ UNCHANGED <<storeVars, edcVars, intVars, txs, procVars, loadCall, pool, fetchCall, extractCall, canonCall, retryCall>>

\* Something inside the try block throws.
ToolCatches(msg) ==
    /\ toolCall.called
    /\ toolCall.pc \in {"edc", "integration"}
    /\ toolCall' = [called |-> TRUE, pc |-> "returned", paperPath |-> toolCall.paperPath,
                    caught |-> msg, result |-> criticalFailure(msg)]
    /\ UNCHANGED <<storeVars, edcVars, intVars, txs, procVars, loadCall, pool, fetchCall, extractCall, canonCall, retryCall>>

ProcessPaperInit == StoreEmpty /\ EDCIdle /\ IntegrationIdle /\ NoTransactions /\ CallsIdle /\ ProcessStarted

ProcessPaperNext ==
    \/ \E paperPath \in Papers : CallProcessPaper(paperPath)
    \/ \E data \in CompleteEvents : ToolReadsComplete(data)
    \/ \E data \in IntegrationCompleteEvents : ToolReadsIntegrationComplete(data)
    \/ \E msg \in ToolErrors : ToolCatches(msg)

SpecProcessPaper == ProcessPaperInit /\ [][ProcessPaperNext]_vars

(***************************************************************************)
(* The process around the workflows: main creates a workflow, reads its    *)
(* stream up to the completion event and ends the client                   *)
(***************************************************************************)
\* The stream has delivered the event main waits for.
Completed(stream) ==
    \E i \in DOMAIN stream : stream[i].type \in {"complete", "integrationComplete"}

\* main leaves its loop at the completion event and ends the client, or
\* calls process.exit(1) after a failed run; the connection is gone either way.
ProcessExit ==
    /\ ~exited
    /\ Completed(edcStream) \/ Completed(intStream)
    /\ client' = close(client)
    /\ exited' = TRUE
    /\ UNCHANGED <<storeVars, edcVars, intVars, txs, callVars>>

\* The database the process finds is what earlier processes left.
MainInit == IntegrationInit

\* The handlers run while the process lives; it runs one workflow to its
\* completion event.
MainNext ==
    \/ ~exited /\ intStream = <<>> /\ EDCNext
    \/ ~exited /\ edcStream = <<>> /\ IntegrationNext
    \/ ProcessExit

SpecMain == MainInit /\ [][MainNext]_vars

(***************************************************************************)
(* Concurrent saveGraph calls: SERIALIZABLE transactions, statement by     *)
(* statement                                                               *)
(***************************************************************************)
\* The fragments of the concurrent callers: relationships between the
\* fragment's own entities.
ConcurrentFragments ==
    {g \in GraphData(StoreIds, StoreNames) :
        \A i \in DOMAIN g.relationships :
            g.relationships[i].sourceId \in EntityIds(g)
                /\ g.relationships[i].targetId \in EntityIds(g)}

InTransaction(t) == t.pc \in {"upserting", "inserting", "committing"}

RowOf(table, id) == IF id \in DOMAIN table THEN {table[id]} ELSE {}

\* The entity of the caller's next upsert statement.
NextEntity(t) == t.graph.entities[t.next]

\* The statement waits while another open transaction holds the row it
\* conflicts with.
WaitsFor(p, q) ==
    /\ p # q
    /\ txs[p].pc = "upserting"
    /\ InTransaction(txs[q])
    /\ NextEntity(txs[p]).id \in txs[q].written

\* The transaction is rolled back and saveGraph rejects with the error: the
\* call runs db.transaction once and has no catch.
RolledBack(t, error) ==
    [IdleTx EXCEPT !.pc = "failed", !.graph = t.graph, !.attempts = t.attempts,
                   !.error = error]

\* saveGraph is called: a fragment without entities opens no transaction.
BeginSaveGraph(p, graph) ==
    /\ txs[p].pc = "idle"
    /\ txs' = [txs EXCEPT ![p] =
                  [@ EXCEPT !.graph = graph,
                            !.attempts = IF Len(graph.entities) > 0 THEN 1 ELSE 0,
                            !.pc = IF Len(graph.entities) > 0 THEN "upserting"
                                   ELSE "returned"]]
    /\ UNCHANGED storeVars

\* One INSERT ... ON CONFLICT (id) DO UPDATE. The first statement takes the
\* transaction's snapshot. A row another transaction has committed since the
\* snapshot makes the statement fail (could not serialize access); the
\* transaction is rolled back and saveGraph rejects.
UpsertStatement(p) ==
    LET t == txs[p]
        snapshot == IF t.hasSnapshot THEN t.snapshot ELSE entities
        view == IF t.hasSnapshot THEN t.view ELSE entities
        entity == NextEntity(t)
        last == t.next = Len(t.graph.entities)
    IN  /\ t.pc = "upserting"
        /\ \A q \in Callers : ~WaitsFor(p, q)
        /\ IF entity.id \notin t.written
              /\ RowOf(entities, entity.id) # RowOf(snapshot, entity.id)
           THEN txs' = [txs EXCEPT ![p] = RolledBack(t, "serialization_failure")]
           ELSE txs' = [txs EXCEPT ![p] =
                           [t EXCEPT !.hasSnapshot = TRUE,
                                     !.snapshot = snapshot,
                                     !.view = upsertEntity(view, entity),
                                     !.written = @ \cup {entity.id},
                                     !.next = IF last THEN 1 ELSE @ + 1,
                                     !.pc = IF ~last THEN "upserting"
                                            ELSE IF Len(t.graph.relationships) > 0
                                                 THEN "inserting" ELSE "committing"]]
        /\ UNCHANGED storeVars

\* The transaction's first statement is issued while another transaction holds
\* the row: the snapshot is taken and the statement waits.
StatementWaits(p) ==
    /\ txs[p].pc = "upserting"
    /\ ~txs[p].hasSnapshot
    /\ \E q \in Callers : WaitsFor(p, q)
    /\ txs' = [txs EXCEPT ![p] = [@ EXCEPT !.hasSnapshot = TRUE,
                                           !.snapshot = entities,
                                           !.view = entities]]
    /\ UNCHANGED storeVars

\* One INSERT INTO relationships ... ON CONFLICT DO NOTHING.
InsertStatement(p) ==
    LET t == txs[p]
        r == t.graph.relationships[t.next]
        last == t.next = Len(t.graph.relationships)
    IN  /\ t.pc = "inserting"
        /\ IF FKViolation(t.view, r)
           THEN txs' = [txs EXCEPT ![p] = RolledBack(t, "foreign_key_violation")]
           ELSE txs' = [txs EXCEPT ![p] =
                           [t EXCEPT !.inserted = insertRelationship(@, r),
                                     !.next = IF last THEN 1 ELSE @ + 1,
                                     !.pc = IF last THEN "committing" ELSE "inserting"]]
        /\ UNCHANGED storeVars

\* COMMIT: the transaction's rows become the tables' rows.
CommitTransaction(p) ==
    LET t == txs[p]
    IN  /\ t.pc = "committing"
        /\ entities' = [id \in DOMAIN entities \cup t.written |->
                           IF id \in t.written THEN t.view[id] ELSE entities[id]]
        /\ relationships' = relationships (+) t.inserted
        /\ txs' = [txs EXCEPT ![p] = [IdleTx EXCEPT !.pc = "committed", !.graph = t.graph,
                                                     !.attempts = t.attempts]]
        /\ UNCHANGED <<lastSave, nSaves>>

\* Two transactions wait for each other's rows: the database aborts one
\* (deadlock detected) and its saveGraph rejects.
DeadlockDetected(p) ==
    /\ \E q \in Callers : WaitsFor(p, q) /\ WaitsFor(q, p)
    /\ txs' = [txs EXCEPT ![p] = RolledBack(txs[p], "deadlock_detected")]
    /\ UNCHANGED storeVars

ConcurrentInit == StoreEmpty /\ EDCIdle /\ IntegrationIdle /\ NoTransactions /\ CallsIdle /\ ProcessStarted

ConcurrentNext ==
    \/ \E p \in Callers, graph \in ConcurrentFragments :
           BeginSaveGraph(p, graph) /\ UNCHANGED <<edcVars, intVars, callVars, procVars>>
    \/ \E p \in Callers : UpsertStatement(p) /\ UNCHANGED <<edcVars, intVars, callVars, procVars>>
    \/ \E p \in Callers : StatementWaits(p) /\ UNCHANGED <<edcVars, intVars, callVars, procVars>>
    \/ \E p \in Callers : InsertStatement(p) /\ UNCHANGED <<edcVars, intVars, callVars, procVars>>
    \/ \E p \in Callers : CommitTransaction(p) /\ UNCHANGED <<edcVars, intVars, callVars, procVars>>
    \/ \E p \in Callers : DeadlockDetected(p) /\ UNCHANGED <<edcVars, intVars, callVars, procVars>>

SpecConcurrent == ConcurrentInit /\ [][ConcurrentNext]_vars

(***************************************************************************)
(* Claims about the store                                                  *)
(***************************************************************************)
\* C2: after any saveGraph call, every relationship row in the store has its
\* sourceId and its targetId equal to the id of an entity row in the store.
C2_RelationshipsReferenceEntities ==
    \A r \in BagToSet(relationships) :
        r.sourceId \in DOMAIN entities /\ r.targetId \in DOMAIN entities

\* A call returned after inserting a relationship row.
C2_Witness ==
    /\ lastSave.called /\ lastSave.ok
    /\ \E r \in BagToSet(relationships) :
           CopiesIn(r, relationships) > CopiesIn(r, lastSave.preRelationships)

\* A relationship is an orphan of its fragment when an endpoint is neither the
\* id of an entity of the fragment nor one of its referencedEntityIds.
IsOrphan(graph, r) ==
    LET known == EntityIds(graph) \cup
                 (IF "referencedEntityIds" \in DOMAIN graph
                  THEN graph.referencedEntityIds ELSE {})
    IN  r.sourceId \notin known \/ r.targetId \notin known

HasOrphan(graph) ==
    \E i \in DOMAIN graph.relationships : IsOrphan(graph, graph.relationships[i])

RECURSIVE InsertNonOrphans(_, _, _)
InsertNonOrphans(rels, graph, rs) ==
    IF rs = <<>> THEN rels
    ELSE InsertNonOrphans(IF IsOrphan(graph, Head(rs)) THEN rels
                          ELSE insertRelationship(rels, Head(rs)),
                          graph, Tail(rs))

\* C3: a call whose fragment holds an orphan relationship drops that
\* relationship, still persists the fragment's entities and its other
\* relationships, and completes without raising an error.
C3_OrphanDroppedNotFatal ==
    (lastSave.called /\ HasOrphan(lastSave.graph)) =>
        /\ lastSave.ok
        /\ entities = upsertEntities(lastSave.preEntities, lastSave.graph.entities)
        /\ relationships = InsertNonOrphans(lastSave.preRelationships, lastSave.graph,
                                            lastSave.graph.relationships)

\* C12: after any sequence of saveGraph calls no two relationship rows have
\* the same (sourceId, targetId, type): inserting a tuple that is already
\* present changes nothing.
C12_RelationshipTupleUnique ==
    \A r \in BagToSet(relationships) : CopiesIn(r, relationships) = 1

C7_ExistingVersionPlusOne ==
    lastSave.called =>
        \A id \in EntityIds(lastSave.graph) \cap DOMAIN lastSave.preEntities :
            entities[id].version = lastSave.preEntities[id].version + 1

\* C8: an entity of the fragment that had no row before the call has
\* version 1 after the call.
C8_NewVersionIsOne ==
    lastSave.called =>
        \A id \in EntityIds(lastSave.graph) \ DOMAIN lastSave.preEntities :
            id \in DOMAIN entities /\ entities[id].version = 1

\* C9: a second saveGraph call with the same fragment leaves the same entity
\* rows and the same relationship rows as the first; only the version of each
\* entity of the fragment is 1 higher.
C9_SecondRunOnlyBumpsVersions ==
    (lastSave.called /\ lastSave.repeated /\ lastSave.ok) =>
        /\ DOMAIN entities = DOMAIN lastSave.preEntities
        /\ relationships = lastSave.preRelationships
        /\ \A id \in DOMAIN entities :
              entities[id] =
                  IF id \in EntityIds(lastSave.graph)
                  THEN [lastSave.preEntities[id] EXCEPT !.version = @ + 1]
                  ELSE lastSave.preEntities[id]

(***************************************************************************)
(* Claims about the EDC workflow                                           *)
(***************************************************************************)
EventsOf(stream, type) == {i \in DOMAIN stream : stream[i].type = type}

EDCHandled == {"load", "extract", "define", "canonicalize", "save", "error"}

\* The run was started and no handler has an event left to handle.
EDCQuiescent ==
    /\ edcStream # <<>>
    /\ \A i \in DOMAIN edcQueue : edcQueue[i].type \notin EDCHandled

C5_FailureCarriesMessage ==
    (EDCQuiescent /\ edcThrown > 0) =>
        \E i \in EventsOf(edcStream, "error") :
            /\ edcStream[i].stage \in {"load", "extract", "define", "canonicalize", "save"}
            /\ edcStream[i].error \in Errors \cup WriteErrors \cup {SaveError}
            /\ \E j \in EventsOf(edcStream, "complete") :
                   /\ i < j
                   /\ edcStream[j].success = FALSE
                   /\ "error" \in DOMAIN edcStream[j]
                   /\ edcStream[j].error = edcStream[i].error

\* The place of an event in a run.
Rank(ev) ==
    CASE ev.type = "load" -> 1
      [] ev.type = "extract" -> 2
      [] ev.type = "define" -> 3
      [] ev.type = "canonicalize" -> 4
      [] ev.type = "save" -> 5
      [] ev.type = "error" -> 6
      [] ev.type = "complete" -> 7

\* C25: within one run the stages execute in the order Load, Extract, Define,
\* Canonicalize, Save, Complete: the events of the stream are in that order,
\* each at most once, each stage's event directly after the event of the stage
\* before it; the events not yet handled are the last ones sent, in the order
\* they were sent; and the store is written only after the SaveEvent.
C25_StagesInOrder ==
    /\ \A i, j \in DOMAIN edcStream : i < j => Rank(edcStream[i]) < Rank(edcStream[j])
    /\ \A i \in DOMAIN edcStream :
           CASE edcStream[i].type = "load" -> i = 1
             [] edcStream[i].type \in {"extract", "define", "canonicalize", "save"} ->
                    i > 1 /\ Rank(edcStream[i - 1]) = Rank(edcStream[i]) - 1
             [] edcStream[i].type = "error" ->
                    i > 1 /\ Rank(edcStream[i - 1]) = Rank([type |-> edcStream[i].stage])
             [] edcStream[i].type = "complete" ->
                    /\ i > 1
                    /\ edcStream[i - 1].type = IF edcStream[i].success THEN "save" ELSE "error"
    /\ Len(edcQueue) <= Len(edcStream)
    /\ edcQueue = SubSeq(edcStream, Len(edcStream) - Len(edcQueue) + 1, Len(edcStream))
    /\ lastSave.called => EventsOf(edcStream, "save") # {}

\* A run went through every stage and completed.
C25_Witness ==
    /\ Len(edcStream) = 6
    /\ edcStream[6].type = "complete"
    /\ edcStream[6].success
    /\ lastSave.called

\* C38: when a stage handler fails, no handler of a later stage runs in
\* that run: after an ErrorEvent the stream delivers nothing but the
\* CompleteEvent, and saveGraph is not called in a run whose load, extract,
\* define or canonicalize handler failed.
C38_NoStageAfterFailure ==
    /\ \A i \in EventsOf(edcStream, "error") :
           /\ \A j \in DOMAIN edcStream : j > i => edcStream[j].type = "complete"
           /\ \A j \in DOMAIN edcStream :
                  Rank(edcStream[j]) <= 5 =>
                      Rank(edcStream[j]) <= Rank([type |-> edcStream[i].stage])
    /\ (edcThrown > 0 /\ lastSave.called) =>
           \A i \in EventsOf(edcStream, "error") : edcStream[i].stage = "save"

\* The canonicalize handler failed, the run has come to rest and saveGraph
\* was not called.
C38_Witness ==
    /\ EDCQuiescent
    /\ \E i \in EventsOf(edcStream, "error") : edcStream[i].stage = "canonicalize"
    /\ ~lastSave.called

\* C28: when the save step's saveGraph call succeeds, the CompleteEvent it
\* sends has success = true and carries the canonicalized graph, the graph of
\* the SaveEvent, as finalGraph.
C28_CompleteCarriesFinalGraph ==
    (lastSave.called /\ lastSave.ok /\ EDCQuiescent) =>
        \E i \in EventsOf(edcStream, "complete") :
            /\ edcStream[i].success
            /\ "finalGraph" \in DOMAIN edcStream[i]
            /\ edcStream[i].finalGraph = lastSave.graph

\* C29: a failure to write a debug artifact does not change the outcome of a
\* run: the handler still sends its next-stage event, so no ErrorEvent carries
\* the error of a debug write and no run ends with success = false on account
\* of one.
C29_DebugWriteFailureIgnored ==
    \A i \in EventsOf(edcStream, "error") : edcStream[i].error \notin WriteErrors

\* The fragment the define step received and the one it sent on.
Defined == EventsOf(edcStream, "canonicalize") # {}
DefineInput == edcStream[CHOOSE i \in EventsOf(edcStream, "define") : TRUE].graph
DefineOutput == edcStream[CHOOSE i \in EventsOf(edcStream, "canonicalize") : TRUE].graph

IdsOf(es) == {es[i].id : i \in DOMAIN es}

\* C19: whatever the model answers, the fragment the define step sends on has
\* as many entities as the fragment it received and the same set of entity
\* ids; an original whose id the refined list lacks is kept unchanged.
C19_DefineKeepsEntities ==
    Defined =>
        /\ Len(DefineOutput.entities) = Len(DefineInput.entities)
        /\ IdsOf(DefineOutput.entities) = IdsOf(DefineInput.entities)
        /\ \A i \in DOMAIN DefineInput.entities :
               (/\ edcResponse.kind = "entities"
                /\ DefineInput.entities[i].id \notin IdsOf(edcResponse.entities))
                   => \E k \in DOMAIN DefineOutput.entities :
                          DefineOutput.entities[k] = DefineInput.entities[i]

\* C20: when the model call or the JSON parse fails in the Definer, the define
\* step fails: it sends an ErrorEvent of stage define and no CanonicalizeEvent,
\* and the run ends with a CompleteEvent with success = false.
C20_DefinerFailureIsFatal ==
    edcResponse.kind \in {"llmError", "parseError"} =>
        /\ ~Defined
        /\ \E i \in EventsOf(edcStream, "error") : edcStream[i].stage = "define"
        /\ \A j \in EventsOf(edcStream, "complete") : edcStream[j].success = FALSE

(***************************************************************************)
(* Claims about Canonicalizer.process                                      *)
(***************************************************************************)
Canonicalized == canonCall.called /\ canonCall.returned

\* Every relationship of the fragment is between entities of the fragment.
EndpointsAreEntities(graph) ==
    \A i \in DOMAIN graph.relationships :
        /\ graph.relationships[i].sourceId \in IdsOf(graph.entities)
        /\ graph.relationships[i].targetId \in IdsOf(graph.entities)

\* C21: every sourceId and every targetId of canonicalize(G).relationships is
\* the id of an entity of canonicalize(G).entities (checked for the fragments
\* whose own relationships are between their own entities).
C21_CanonicalEndpointsAreEntities ==
    (Canonicalized /\ EndpointsAreEntities(canonCall.input)) =>
        EndpointsAreEntities(canonCall.output)

\* String.prototype.trim over the names of the model
trim(name) == IF name = " x" THEN "x" ELSE name

\* C22: canonicalize(G).entities has at most one entity per lowercased, trimmed
\* name.
C22_OnePerTrimmedLowercasedName ==
    Canonicalized =>
        \A i, j \in DOMAIN canonCall.output.entities :
            i # j => toLowerCase(trim(canonCall.output.entities[i].name))
                         # toLowerCase(trim(canonCall.output.entities[j].name))

\* Entity i is the first of the input with its lowercased name; entity i comes
\* after another one with that name.
IsFirst(es, i) ==
    /\ es[i].name # ""
    /\ \A j \in 1..(i - 1) : toLowerCase(es[j].name) # toLowerCase(es[i].name)
IsLater(es, i) ==
    /\ es[i].name # ""
    /\ \E j \in 1..(i - 1) : toLowerCase(es[j].name) = toLowerCase(es[i].name)
FirstOf(es, i) ==
    es[CHOOSE j \in 1..i : IsFirst(es, j) /\ toLowerCase(es[j].name) = toLowerCase(es[i].name)]

\* The id an endpoint is rewritten to: the id of the first entity with the name
\* of the later entity that has the endpoint's id (the last such entity when
\* several have that id); the endpoint itself when there is none.
RewrittenTo(es, id) ==
    LET later == {i \in DOMAIN es : IsLater(es, i) /\ es[i].id = id}
    IN  IF later = {} THEN id
        ELSE FirstOf(es, CHOOSE i \in later : \A j \in later : j <= i).id

\* C23: of the entities that share a lowercased name canonicalize keeps the
\* first in input order and drops the later ones; every endpoint that names a
\* dropped id is rewritten to the kept id and every other endpoint is
\* unchanged (in the relationships that are returned: those that are not
\* self-loops after the rewrite).
C23_FirstKeptEndpointsRewired ==
    Canonicalized =>
        LET es == canonCall.input.entities
            rs == canonCall.input.relationships
            out == canonCall.output
            firsts == {i \in DOMAIN es : IsFirst(es, i)}
            expected == [i \in DOMAIN rs |->
                            [rs[i] EXCEPT !.sourceId = RewrittenTo(es, @),
                                          !.targetId = RewrittenTo(es, @)]]
        IN  /\ Len(out.entities) = Cardinality(firsts)
            /\ \A k \in DOMAIN out.entities :
                   \E i \in firsts :
                       /\ Cardinality({j \in firsts : j <= i}) = k
                       /\ out.entities[k] = es[i]
            /\ out.relationships = SelectSeq(expected, LAMBDA r : r.sourceId # r.targetId)

\* A later entity was dropped and a relationship that named it now names the
\* kept one, its other endpoint being as it was.
C23_Witness ==
    /\ Canonicalized
    /\ \E i \in DOMAIN canonCall.input.entities :
           /\ IsLater(canonCall.input.entities, i)
           /\ Len(canonCall.input.relationships) = 1
           /\ Len(canonCall.output.relationships) = 1
           /\ canonCall.input.relationships[1].sourceId = canonCall.input.entities[i].id
           /\ canonCall.output.relationships[1].sourceId
                  = FirstOf(canonCall.input.entities, i).id
           /\ canonCall.output.relationships[1].sourceId
                  # canonCall.input.relationships[1].sourceId
           /\ canonCall.output.relationships[1].targetId
                  = canonCall.input.relationships[1].targetId

\* C24: canonicalize(G).relationships has no relationship whose sourceId equals
\* its targetId, also when the endpoints are equal only after the rewrite.
C24_NoCanonicalSelfLoop ==
    Canonicalized =>
        \A i \in DOMAIN canonCall.output.relationships :
            canonCall.output.relationships[i].sourceId
                # canonCall.output.relationships[i].targetId

\* A relationship between two entities of the same name was dropped.
C24_Witness ==
    /\ Canonicalized
    /\ Len(canonCall.input.relationships) = 1
    /\ canonCall.input.relationships[1].sourceId # canonCall.input.relationships[1].targetId
    /\ RewrittenTo(canonCall.input.entities, canonCall.input.relationships[1].sourceId)
           = RewrittenTo(canonCall.input.entities, canonCall.input.relationships[1].targetId)
    /\ canonCall.output.relationships = <<>>

(***************************************************************************)
(* Claims about withRetry                                                  *)
(***************************************************************************)
\* The errors the operation is not called again after.
FailsFast(error) ==
    \/ /\ "message" \in DOMAIN error
       /\ error.message \in {"Payment Required", "Error 402", "Unauthorized", "401"}
    \/ /\ "status" \in DOMAIN error
       /\ error.status = 404

\* C26: withRetry rethrows at once, without calling the operation again, when
\* the error's message matches Payment Required, 402, Unauthorized or 401 or
\* its status is 404; after any other error it calls the operation again as
\* long as retries remain.
C26_RetryUnlessFailFast ==
    retryCall.called =>
        LET errors == retryCall.errors
            n == Len(errors)
        IN  /\ retryCall.calls <= retryCall.retries + 1
            /\ \A i \in 1..(n - 1) : ~FailsFast(errors[i])
            /\ (n > 0 /\ FailsFast(errors[n])) =>
                   retryCall.pc = "thrown" /\ retryCall.calls = n
            /\ (n > 0 /\ ~FailsFast(errors[n]) /\ n <= retryCall.retries) =>
                   retryCall.pc \in {"running", "returned"}
            /\ retryCall.pc = "running" => retryCall.calls = n /\ n <= retryCall.retries
            /\ retryCall.pc = "thrown" =>
                   /\ retryCall.calls = n
                   /\ FailsFast(errors[n]) \/ n = retryCall.retries + 1

\* An error was retried and the next one, a 402, was rethrown with a retry left.
C26_Witness ==
    /\ retryCall.called
    /\ retryCall.pc = "thrown"
    /\ retryCall.retries = 2
    /\ Len(retryCall.errors) = 2
    /\ retryCall.errors[2] = [message |-> "Error 402", status |-> 500]

\* Every call of the operation so far has failed with an error that is
\* retried.
AlwaysFailsRetryable ==
    /\ retryCall.called
    /\ Len(retryCall.errors) = retryCall.calls
    /\ \A i \in DOMAIN retryCall.errors : ~FailsFast(retryCall.errors[i])

\* C39: when the operation fails every time with a retryable error,
\* withRetry with retries = r calls it exactly r + 1 times, sleeps r times in
\* between (after attempt k for min(1000 * 2^(k-1), 10000) ms), then rethrows
\* the last error; the operation is not called again.
C39_CallsRetriesPlusOne ==
    AlwaysFailsRetryable =>
        /\ retryCall.pc \in {"running", "thrown"}
        /\ retryCall.pc = "running" =>
               /\ retryCall.calls <= retryCall.retries
               /\ Len(retryCall.sleeps) = retryCall.calls
        /\ retryCall.pc = "thrown" =>
               /\ retryCall.calls = retryCall.retries + 1
               /\ Len(retryCall.sleeps) = retryCall.retries
               /\ retryCall.thrown = <<retryCall.errors[retryCall.calls]>>
        /\ \A k \in DOMAIN retryCall.sleeps :
               retryCall.sleeps[k] = IF k = 1 THEN 1000 ELSE IF k = 2 THEN 2000
                                     ELSE IF k = 3 THEN 4000 ELSE IF k = 4 THEN 8000
                                     ELSE 10000

\* With the default of three retries the operation failed four times and
\* the last error was rethrown.
C39_Witness ==
    /\ AlwaysFailsRetryable
    /\ retryCall.pc = "thrown"
    /\ retryCall.retries = 3
    /\ retryCall.calls = 4

(***************************************************************************)
(* Claims about processPaper                                               *)
(***************************************************************************)
\* The call has returned after a workflow failed: the EDC stream's
\* CompleteEvent had success = false, or the Integration stream's had, or
\* something threw inside the tool.
WorkflowFailed ==
    /\ toolCall.called
    /\ toolCall.pc = "returned"
    /\ \/ "caught" \in DOMAIN toolCall
       \/ "edcData" \in DOMAIN toolCall /\ ~toolCall.edcData.success
       \/ "integrationData" \in DOMAIN toolCall /\ ~toolCall.integrationData.success

Resolved == EventsOf(intStream, "entitiesResolved") # {}
NewGraphOfRun == intStream[CHOOSE i \in EventsOf(intStream, "integrate") : TRUE].newGraph
ResolvedOfRun == intStream[CHOOSE i \in EventsOf(intStream, "entitiesResolved") : TRUE]

\* Every entity of a non-empty fragment was resolved as a merge.
AllMerged ==
    /\ Resolved
    /\ Len(NewGraphOfRun.entities) > 0
    /\ Len(ResolvedOfRun.resolvedGraph.entities) = 0

RECURSIVE InsertBetweenExisting(_, _, _)
InsertBetweenExisting(ents, rels, rs) ==
    IF rs = <<>> THEN rels
    ELSE InsertBetweenExisting(ents,
             IF FKViolation(ents, Head(rs)) THEN rels ELSE insertRelationship(rels, Head(rs)),
             Tail(rs))

\* C4: when every entity of the new fragment is resolved as MERGE, so that
\* resolvedGraph.entities is empty, the persist step still inserts each rewired
\* relationship whose two endpoints exist in the store, and creates no entity
\* row (one relationship row in Scenario 4).
C4_AllMergedRelationshipsInserted ==
    (AllMerged /\ lastSave.called) =>
        /\ DOMAIN entities = DOMAIN lastSave.preEntities
        /\ relationships = InsertBetweenExisting(lastSave.preEntities,
                               lastSave.preRelationships,
                               ResolvedOfRun.resolvedGraph.relationships)

\* C6: after the resolve step, the number of entities of resolvedGraph plus the
\* number of mergeLog entries whose action is MERGE is the number of entities
\* of newGraph.
C6_ResolvedPlusMergedIsAll ==
    Resolved =>
        Len(ResolvedOfRun.resolvedGraph.entities) + CountAction(ResolvedOfRun.mergeLog, "MERGE")
            = Len(NewGraphOfRun.entities)

IntegrationHandled == {"integrate", "candidatesRetrieved", "entitiesResolved",
                       "integrationError"}

\* The run was started and no handler has an event left to handle.
IntegrationQuiescent ==
    /\ intStream # <<>>
    /\ \A i \in DOMAIN intQueue : intQueue[i].type \notin IntegrationHandled

\* C15: when the retrieve, resolve or persist step raises, the workflow emits
\* an IntegrationErrorEvent and then exactly one IntegrationCompleteEvent with
\* success = false; nothing else follows the error event, and no
\* IntegrationCompleteEvent precedes it.
C15_ErrorThenOneFailedComplete ==
    /\ Cardinality(EventsOf(intStream, "integrationError")) = intThrown
    /\ \A i \in EventsOf(intStream, "integrationError") :
           /\ intStream[i].stage \in {"retrieve", "resolve", "persist"}
           /\ Len(intStream) <= i + 1
           /\ IntegrationQuiescent => Len(intStream) = i + 1
           /\ \A j \in DOMAIN intStream :
                  /\ j < i => intStream[j].type \notin {"integrationComplete", "integrationError"}
                  /\ j > i => /\ intStream[j].type = "integrationComplete"
                              /\ intStream[j].success = FALSE

\* The persist step raised and the run has come to rest.
C15_Witness ==
    /\ IntegrationQuiescent
    /\ intThrown = 1
    /\ \E i \in EventsOf(intStream, "integrationError") : intStream[i].stage = "persist"
    /\ intStream[Len(intStream)].type = "integrationComplete"

Unparsed ==
    {i \in DOMAIN intAnswers : intAnswers[i] # NotAsked /\ ~intAnswers[i].parsed}

CandidatesOfRun ==
    intStream[CHOOSE i \in EventsOf(intStream, "candidatesRetrieved") : TRUE].candidates

\* C17: when the resolver's response for an entity cannot be parsed, the
\* mergeLog holds for it a CREATE decision with confidence 0 and no target, the
\* entity stays in resolvedGraph under its own id (unless another entry of the
\* fragment with the same id is merged), the resolve step still sends its
\* EntitiesResolvedEvent, and every other entity has the decision its own
\* response gives.
C17_ParseFailureIsCreate ==
    Unparsed # {} =>
        /\ Resolved
        /\ \A i \in EventsOf(intStream, "integrationError") : intStream[i].stage = "persist"
        /\ LET new == NewGraphOfRun.entities
               candidates == CandidatesOfRun
               mergeLog == ResolvedOfRun.mergeLog
               kept == ResolvedOfRun.resolvedGraph.entities
               unparsed == Unparsed
           IN  /\ Len(mergeLog) = Len(new)
               /\ \A i \in unparsed :
                      /\ mergeLog[i] = [newEntityId |-> new[i].id, action |-> "CREATE",
                                        confidence |-> "0.0"]
                      /\ (\A j \in DOMAIN new : new[j].id = new[i].id => j \in unparsed)
                           => \E k \in DOMAIN kept : kept[k] = new[i]
               /\ \A j \in DOMAIN new \ unparsed :
                      mergeLog[j] = resolutionTask(new[j], candidates, intAnswers[j]).log

\* One response of the run could not be parsed and another was a merge.
C17_Witness ==
    /\ Unparsed # {}
    /\ \E j \in DOMAIN intAnswers \ Unparsed :
           /\ intAnswers[j] # NotAsked
           /\ ResolvedOfRun.mergeLog[j].action = "MERGE"
           /\ "targetId" \in DOMAIN ResolvedOfRun.mergeLog[j]

\* The id each entity id of the fragment was resolved to.
IdMappingOfRun ==
    LET new == NewGraphOfRun.entities
        candidates == CandidatesOfRun
    IN  aggregate([i \in DOMAIN new |-> resolutionTask(new[i], candidates, intAnswers[i])],
                  <<>>)

\* The ids that entities were merged into and that no kept entity has.
MergeTargetsOutsideFragment ==
    LET idMapping == IdMappingOfRun
        kept == ResolvedOfRun.resolvedGraph.entities
    IN  {t \in IntIds :
            /\ \E id \in DOMAIN idMapping : idMapping[id] = t /\ t # id
            /\ \A k \in DOMAIN kept : kept[k].id # t}

NewGraphLoopFree ==
    /\ EventsOf(intStream, "integrate") # {}
    /\ \A i \in DOMAIN NewGraphOfRun.relationships :
           NewGraphOfRun.relationships[i].sourceId # NewGraphOfRun.relationships[i].targetId

\* C13: after any saveGraph call no relationship row has sourceId equal to
\* targetId, also when the fragment is a resolved graph in which Integration
\* rewrote both endpoints of a relationship to one merge target (stated here
\* for that case: the new fragment itself holds no self-loop).
C13_NoSelfLoopRow ==
    NewGraphLoopFree =>
        \A r \in BagToSet(relationships) : r.sourceId # r.targetId

(***************************************************************************)
(* Claims about concurrent saveGraph calls                                 *)
(***************************************************************************)
Returned(t) == t.pc \in {"returned", "committed", "failed"}

Once(graph, id) == Cardinality({i \in DOMAIN graph.entities : graph.entities[i].id = id}) = 1

\* C10: when two calls whose fragments both contain the same new entity id x
\* (once each) run concurrently, both calls commit, one entity row with id x
\* exists afterwards and its version is 2.
C10_BothCommitVersionTwo ==
    \A x \in StoreIds :
        (\A p \in Callers : Returned(txs[p]) /\ Once(txs[p].graph, x))
        => /\ \A p \in Callers : txs[p].pc = "committed"
           /\ x \in DOMAIN entities
           /\ entities[x].version = 2

\* C11: a call whose transaction is aborted by a serialization failure runs
\* the transaction again, up to three retries, before it reports the failure;
\* a call that fails with any other error has run its transaction once.
C11_SerializationFailureRetried ==
    \A p \in Callers :
        txs[p].pc = "failed" =>
            IF txs[p].error = "serialization_failure"
            THEN txs[p].attempts = 1 + 3
            ELSE txs[p].attempts = 1

(***************************************************************************)
(* Claims about the process and its connection                             *)
(***************************************************************************)
\* A workflow run of the process has reached its completion event.
RunCompleted == Completed(edcStream) \/ Completed(intStream)

Extracted == extractCall.called /\ extractCall.returned

\* C31: whatever the extraction service answered, every relationship that
\* extract returns has its sourceId and its targetId among the ids of the
\* entities returned by the same call, and its sourceId differs from its
\* targetId.
C31_ExtractedEndpointsAreEntities ==
    Extracted =>
        LET out == extractCall.output
        IN  \A i \in DOMAIN out.relationships :
                /\ out.relationships[i].sourceId \in EntityIds(out)
                /\ out.relationships[i].targetId \in EntityIds(out)
                /\ out.relationships[i].sourceId # out.relationships[i].targetId

\* The service named an id that is no entity, or a self-loop, and the call
\* returned without that relationship.
C31_Witness ==
    /\ Extracted
    /\ extractCall.asked
    /\ extractCall.answer.kind = "data"
    /\ Len(extractCall.answer.relationships) > Len(extractCall.output.relationships)

(***************************************************************************)
(* Claims about candidate retrieval                                        *)
(***************************************************************************)
\* The candidates a returned batch call gave an input (none: it is omitted).
CandidatesFor(input) ==
    IF input.id \in DOMAIN fetchCall.output THEN fetchCall.output[input.id] ELSE {}

\* C32: the candidates fetchSimilarEntitiesBatch returns for an input entity
\* are candidates fetchSimilarEntities may return for that entity alone,
\* whichever other entities are in the batch.
C32_BatchResultIsSingleResult ==
    (fetchCall.called /\ fetchCall.batch /\ fetchCall.returned) =>
        \A i \in DOMAIN fetchCall.inputs :
            CandidatesFor(fetchCall.inputs[i])
                \in fetchSimilarEntities(entities, fetchCall.inputs[i])

\* C33: fetchSimilarEntities returns at most 5 entities, and none of them
\* has the id of the input entity, whatever the table holds.
C33_AtMostFiveNoneSelf ==
    (fetchCall.called /\ ~fetchCall.batch /\ fetchCall.returned) =>
        /\ Cardinality(fetchCall.output) <= 5
        /\ fetchCall.inputs[1].id \notin fetchCall.output

\* More than five rows are similar to the input, its own row among them.
C33_Witness ==
    /\ fetchCall.called /\ ~fetchCall.batch /\ fetchCall.returned
    /\ Cardinality(similar(entities, fetchCall.inputs[1])) > 5
    /\ fetchCall.inputs[1].id \in DOMAIN entities

(***************************************************************************)
(* Claims about the Resolve step's task pool                               *)
(***************************************************************************)
\* C34: at no moment of the Resolve step are more than 10 resolution tasks
\* in flight, however many entities the fragment has.
C34_AtMostTenInFlight ==
    pool.called => Cardinality(pool.running) <= 10

\* A fragment of more than ten entities: ten tasks are in flight and the
\* others wait.
C34_Witness ==
    /\ pool.called
    /\ pool.n > 10
    /\ Cardinality(pool.running) = 10

\* C37: when the tasks have all settled, in whatever order, mergeLog has
\* exactly one entry per entity of the fragment, in the order of the
\* entities, and idMapping has a resolved id for every entity id.
C37_OneEntryPerEntityInOrder ==
    (pool.called /\ pool.returned) =>
        /\ Len(pool.mergeLog) = pool.n
        /\ \A k \in 1..pool.n : pool.mergeLog[k].newEntityId = k
        /\ DOMAIN pool.idMapping = 1..pool.n

\* The tasks of a fragment of more than ten entities settled out of order.
C37_Witness ==
    /\ pool.called
    /\ pool.returned
    /\ pool.n > 10
    /\ pool.reordered

C36_MergeTargetIsCandidate ==
    Resolved =>
        LET idMapping == IdMappingOfRun
            candidates == CandidatesOfRun
        IN  \A id \in DOMAIN idMapping :
                idMapping[id] # id =>
                    /\ id \in DOMAIN candidates
                    /\ idMapping[id] \in candidates[id]

(***************************************************************************)
(* Claims about LlamaParseLoader.load                                      *)
(***************************************************************************)
\* The call of load has returned a text or thrown an error.
LoadTerminated == loadCall.called /\ loadCall.pc \in {"returned", "thrown"}

\* C40: load always terminates: whatever the parse job reports, also when
\* it never reaches SUCCESS or FAILED, the call returns a text or throws an
\* error.
C40_LoadTerminates ==
    loadCall.called ~> LoadTerminated


=============================================================================
